---------------------------- MODULE Spec2Model ----------------------------
(***************************************************************************)
(* Model of the agricultural weather-alert server (src/server.py and its   *)
(* tools): season classification, regional crop selection, month-based     *)
(* stage estimation, the rule-based alert classifier, the optional AI      *)
(* narrative, and the request pipeline generate_dynamic_alert /            *)
(* run_workflow.                                                           *)
(*                                                                         *)
(* Python dicts are functions whose DOMAIN is the set of keys; the empty   *)
(* dict is <<>>.  None is the empty sequence NoneVal, an optional value v  *)
(* is <<v>>.  A temperature, wind speed or precipitation amount is the     *)
(* integer n that stands for the float n / 4 (25.0 is 100, 2.75 is 11), so *)
(* the thresholds 25, 10, 2, 35, 10, 30 of the classifier read 100, 40, 8, *)
(* 140, 40, 120.  These are the floats on which the sums and products of   *)
(* the code are exact; a float that is no multiple of a quarter (8.4) has  *)
(* no value in the model.                                                  *)
(***************************************************************************)
EXTENDS Integers, Sequences, FiniteSets, TLC

VARIABLES
    pc,                \* position of the request being served
    req,               \* WorkflowRequest: [state, district]
    openai_key,        \* module-level openai_key is set (TRUE) or missing
    month,             \* current_month of select_regional_crop, 0 unread
    season,            \* current_season of select_regional_crop
    available_villages,\* villages_data["villages"]
    selected_village,  \* random.choice(available_villages)
    location,          \* (location_coords, location_source)
    crop,              \* regional_crop
    crop_stage,        \* crop_stage
    cw,                \* current_weather_data (JSON of the provider)
    fc,                \* forecast_data (JSON of the provider)
    cls,               \* (alert_type, urgency, alert_message, action_items)
    ai,                \* ai_analysis: NoneVal or <<dict>>
    ai_fault,          \* why generate_ai_alert returned None, "" otherwise
    result,            \* record returned by generate_dynamic_alert, or NoneVal
    error,             \* message of the exception raised, "" when none
    resp,              \* response of run_workflow, or NoneVal
    calls,             \* external calls awaited so far, in order
    weighted,          \* the list random.choice draws the crop from
    stage_index,       \* stage_index of the last stage estimate, if any
    district_crops,    \* the module-level table DISTRICT_CROPS
    crop_calendar,     \* the module-level table CROP_CALENDAR
    est_in,            \* arguments of the planting-date stage estimator
    est_out,           \* what the planting-date stage estimator returned
    call_args,         \* arguments of a formatter, tool or handler run alone
    call_ret,          \* what that formatter, tool or handler returned
    issued_ids,        \* the alert_id of every record built so far
    clock,             \* what datetime.now() shows: <<year, month, day,
                       \* hour, minute, second, microsecond>>
    readings,          \* what datetime.now() returned to the request being
                       \* served, in the order of the reads
    tasks              \* the requests in flight when several are served at
                       \* once: the position and the locals of each

vars == <<pc, req, openai_key, month, season, available_villages,
          selected_village, location, crop, crop_stage, cw, fc, cls, ai,
          ai_fault, result, error, resp, calls, weighted, stage_index,
          district_crops, crop_calendar, est_in, est_out, call_args,
          call_ret, issued_ids, clock, readings, tasks>>

NoneVal == <<>>
EmptyDict == <<>>

\* dict.get(key, default)
Get(d, k, default) == IF k \in DOMAIN d THEN d[k] ELSE default

----------------------------------------------------------------------------
(* Bounds of the model *)

\* longest precipitation_sum list returned by the forecast provider
MaxForecastDays == 4
\* largest number of villages returned for a district
MaxVillages == 2
\* largest number of requests whose alert ids are compared
MaxRequests == 3
\* largest number of seconds the clock advances while they are served
MaxTicks == 2
\* longest list of alerts handed to prioritize_alerts
MaxAlerts == 3
\* requests in flight at once
MaxTasks == 2

----------------------------------------------------------------------------
(* Strings: the spelling of the names the model uses, str.upper(),          *)
(* str.lower() and str.capitalize()                                        *)

StateNames == {"bihar", "Bihar", "punjab"}

DistrictNames == {"patna", "Patna", "gaya", "bhagalpur", "muzaffarpur",
                  "darbhanga", "siwan", "begusarai", "katihar", "nalanda"}

\* the characters of a text, one string of one character each
chars(s) == [i \in 1..Len(s) |-> SubSeq(s, i, i)]

\* the characters that are not ASCII, each written as the token of its code
\* point: the Latin-1 letters and signs (with the letters upper() and
\* title() give for them) and the signs and letters of the texts below.  A
\* character is a string of one ASCII character or one of these tokens; the
\* case of any other character is outside the model
NonAsciiChars ==
    {"U+00A0", "U+00A1", "U+00A2", "U+00A3", "U+00A4", "U+00A5", "U+00A6",
     "U+00A7", "U+00A8", "U+00A9", "U+00AA", "U+00AB", "U+00AC", "U+00AD",
     "U+00AE", "U+00AF", "U+00B0", "U+00B1", "U+00B2", "U+00B3", "U+00B4",
     "U+00B5", "U+00B6", "U+00B7", "U+00B8", "U+00B9", "U+00BA", "U+00BB",
     "U+00BC", "U+00BD", "U+00BE", "U+00BF", "U+00C0", "U+00C1", "U+00C2",
     "U+00C3", "U+00C4", "U+00C5", "U+00C6", "U+00C7", "U+00C8", "U+00C9",
     "U+00CA", "U+00CB", "U+00CC", "U+00CD", "U+00CE", "U+00CF", "U+00D0",
     "U+00D1", "U+00D2", "U+00D3", "U+00D4", "U+00D5", "U+00D6", "U+00D7",
     "U+00D8", "U+00D9", "U+00DA", "U+00DB", "U+00DC", "U+00DD", "U+00DE",
     "U+00DF", "U+00E0", "U+00E1", "U+00E2", "U+00E3", "U+00E4", "U+00E5",
     "U+00E6", "U+00E7", "U+00E8", "U+00E9", "U+00EA", "U+00EB", "U+00EC",
     "U+00ED", "U+00EE", "U+00EF", "U+00F0", "U+00F1", "U+00F2", "U+00F3",
     "U+00F4", "U+00F5", "U+00F6", "U+00F7", "U+00F8", "U+00F9", "U+00FA",
     "U+00FB", "U+00FC", "U+00FD", "U+00FE", "U+00FF", "U+0178", "U+039C",
     "U+03BC", "U+0902", "U+0905", "U+0906", "U+0909", "U+0915", "U+0917",
     "U+091A", "U+091C", "U+091F", "U+0923", "U+0924", "U+0926", "U+0928",
     "U+092A", "U+092B", "U+092C", "U+092D", "U+092E", "U+092F", "U+0930",
     "U+0932", "U+0935", "U+0936", "U+0937", "U+0938", "U+0939", "U+093E",
     "U+093F", "U+0940", "U+0941", "U+0942", "U+0947", "U+094B", "U+094C",
     "U+094D", "U+0964", "U+221E", "U+26A0", "U+2705", "U+FE0F", "U+1F33E",
     "U+1F4CD", "U+1F4DD", "U+1F6A8"}

\* a character str.upper(), str.lower() and str.title() leave as it is
unchanged_char(ch) == CASE Len(ch) = 1 \/ ch \in NonAsciiChars -> ch

\* str.upper() of one character: the characters it gives
upper_char(ch) ==
    CASE ch = "a" -> <<"A">> [] ch = "b" -> <<"B">> [] ch = "c" -> <<"C">>
      [] ch = "d" -> <<"D">> [] ch = "e" -> <<"E">> [] ch = "f" -> <<"F">>
      [] ch = "g" -> <<"G">> [] ch = "h" -> <<"H">> [] ch = "i" -> <<"I">>
      [] ch = "j" -> <<"J">> [] ch = "k" -> <<"K">> [] ch = "l" -> <<"L">>
      [] ch = "m" -> <<"M">> [] ch = "n" -> <<"N">> [] ch = "o" -> <<"O">>
      [] ch = "p" -> <<"P">> [] ch = "q" -> <<"Q">> [] ch = "r" -> <<"R">>
      [] ch = "s" -> <<"S">> [] ch = "t" -> <<"T">> [] ch = "u" -> <<"U">>
      [] ch = "v" -> <<"V">> [] ch = "w" -> <<"W">> [] ch = "x" -> <<"X">>
      [] ch = "y" -> <<"Y">> [] ch = "z" -> <<"Z">>
      [] ch = "U+00B5" -> <<"U+039C">> [] ch = "U+00DF" -> <<"S", "S">>
      [] ch = "U+00E0" -> <<"U+00C0">> [] ch = "U+00E1" -> <<"U+00C1">>
      [] ch = "U+00E2" -> <<"U+00C2">> [] ch = "U+00E3" -> <<"U+00C3">>
      [] ch = "U+00E4" -> <<"U+00C4">> [] ch = "U+00E5" -> <<"U+00C5">>
      [] ch = "U+00E6" -> <<"U+00C6">> [] ch = "U+00E7" -> <<"U+00C7">>
      [] ch = "U+00E8" -> <<"U+00C8">> [] ch = "U+00E9" -> <<"U+00C9">>
      [] ch = "U+00EA" -> <<"U+00CA">> [] ch = "U+00EB" -> <<"U+00CB">>
      [] ch = "U+00EC" -> <<"U+00CC">> [] ch = "U+00ED" -> <<"U+00CD">>
      [] ch = "U+00EE" -> <<"U+00CE">> [] ch = "U+00EF" -> <<"U+00CF">>
      [] ch = "U+00F0" -> <<"U+00D0">> [] ch = "U+00F1" -> <<"U+00D1">>
      [] ch = "U+00F2" -> <<"U+00D2">> [] ch = "U+00F3" -> <<"U+00D3">>
      [] ch = "U+00F4" -> <<"U+00D4">> [] ch = "U+00F5" -> <<"U+00D5">>
      [] ch = "U+00F6" -> <<"U+00D6">> [] ch = "U+00F8" -> <<"U+00D8">>
      [] ch = "U+00F9" -> <<"U+00D9">> [] ch = "U+00FA" -> <<"U+00DA">>
      [] ch = "U+00FB" -> <<"U+00DB">> [] ch = "U+00FC" -> <<"U+00DC">>
      [] ch = "U+00FD" -> <<"U+00DD">> [] ch = "U+00FE" -> <<"U+00DE">>
      [] ch = "U+00FF" -> <<"U+0178">> [] ch = "U+03BC" -> <<"U+039C">>
      [] OTHER -> <<unchanged_char(ch)>>

\* str.lower() of one character
lower_char(ch) ==
    CASE ch = "A" -> "a" [] ch = "B" -> "b" [] ch = "C" -> "c"
      [] ch = "D" -> "d" [] ch = "E" -> "e" [] ch = "F" -> "f"
      [] ch = "G" -> "g" [] ch = "H" -> "h" [] ch = "I" -> "i"
      [] ch = "J" -> "j" [] ch = "K" -> "k" [] ch = "L" -> "l"
      [] ch = "M" -> "m" [] ch = "N" -> "n" [] ch = "O" -> "o"
      [] ch = "P" -> "p" [] ch = "Q" -> "q" [] ch = "R" -> "r"
      [] ch = "S" -> "s" [] ch = "T" -> "t" [] ch = "U" -> "u"
      [] ch = "V" -> "v" [] ch = "W" -> "w" [] ch = "X" -> "x"
      [] ch = "Y" -> "y" [] ch = "Z" -> "z" [] ch = "U+00C0" -> "U+00E0"
      [] ch = "U+00C1" -> "U+00E1" [] ch = "U+00C2" -> "U+00E2"
      [] ch = "U+00C3" -> "U+00E3" [] ch = "U+00C4" -> "U+00E4"
      [] ch = "U+00C5" -> "U+00E5" [] ch = "U+00C6" -> "U+00E6"
      [] ch = "U+00C7" -> "U+00E7" [] ch = "U+00C8" -> "U+00E8"
      [] ch = "U+00C9" -> "U+00E9" [] ch = "U+00CA" -> "U+00EA"
      [] ch = "U+00CB" -> "U+00EB" [] ch = "U+00CC" -> "U+00EC"
      [] ch = "U+00CD" -> "U+00ED" [] ch = "U+00CE" -> "U+00EE"
      [] ch = "U+00CF" -> "U+00EF" [] ch = "U+00D0" -> "U+00F0"
      [] ch = "U+00D1" -> "U+00F1" [] ch = "U+00D2" -> "U+00F2"
      [] ch = "U+00D3" -> "U+00F3" [] ch = "U+00D4" -> "U+00F4"
      [] ch = "U+00D5" -> "U+00F5" [] ch = "U+00D6" -> "U+00F6"
      [] ch = "U+00D8" -> "U+00F8" [] ch = "U+00D9" -> "U+00F9"
      [] ch = "U+00DA" -> "U+00FA" [] ch = "U+00DB" -> "U+00FB"
      [] ch = "U+00DC" -> "U+00FC" [] ch = "U+00DD" -> "U+00FD"
      [] ch = "U+00DE" -> "U+00FE" [] ch = "U+0178" -> "U+00FF"
      [] ch = "U+039C" -> "U+03BC"
      [] OTHER -> unchanged_char(ch)

\* the title case of one character, which str.capitalize() gives the first
\* character: the characters it gives
title_char(ch) ==
    CASE ch = "a" -> <<"A">> [] ch = "b" -> <<"B">> [] ch = "c" -> <<"C">>
      [] ch = "d" -> <<"D">> [] ch = "e" -> <<"E">> [] ch = "f" -> <<"F">>
      [] ch = "g" -> <<"G">> [] ch = "h" -> <<"H">> [] ch = "i" -> <<"I">>
      [] ch = "j" -> <<"J">> [] ch = "k" -> <<"K">> [] ch = "l" -> <<"L">>
      [] ch = "m" -> <<"M">> [] ch = "n" -> <<"N">> [] ch = "o" -> <<"O">>
      [] ch = "p" -> <<"P">> [] ch = "q" -> <<"Q">> [] ch = "r" -> <<"R">>
      [] ch = "s" -> <<"S">> [] ch = "t" -> <<"T">> [] ch = "u" -> <<"U">>
      [] ch = "v" -> <<"V">> [] ch = "w" -> <<"W">> [] ch = "x" -> <<"X">>
      [] ch = "y" -> <<"Y">> [] ch = "z" -> <<"Z">>
      [] ch = "U+00B5" -> <<"U+039C">> [] ch = "U+00DF" -> <<"S", "s">>
      [] ch = "U+00E0" -> <<"U+00C0">> [] ch = "U+00E1" -> <<"U+00C1">>
      [] ch = "U+00E2" -> <<"U+00C2">> [] ch = "U+00E3" -> <<"U+00C3">>
      [] ch = "U+00E4" -> <<"U+00C4">> [] ch = "U+00E5" -> <<"U+00C5">>
      [] ch = "U+00E6" -> <<"U+00C6">> [] ch = "U+00E7" -> <<"U+00C7">>
      [] ch = "U+00E8" -> <<"U+00C8">> [] ch = "U+00E9" -> <<"U+00C9">>
      [] ch = "U+00EA" -> <<"U+00CA">> [] ch = "U+00EB" -> <<"U+00CB">>
      [] ch = "U+00EC" -> <<"U+00CC">> [] ch = "U+00ED" -> <<"U+00CD">>
      [] ch = "U+00EE" -> <<"U+00CE">> [] ch = "U+00EF" -> <<"U+00CF">>
      [] ch = "U+00F0" -> <<"U+00D0">> [] ch = "U+00F1" -> <<"U+00D1">>
      [] ch = "U+00F2" -> <<"U+00D2">> [] ch = "U+00F3" -> <<"U+00D3">>
      [] ch = "U+00F4" -> <<"U+00D4">> [] ch = "U+00F5" -> <<"U+00D5">>
      [] ch = "U+00F6" -> <<"U+00D6">> [] ch = "U+00F8" -> <<"U+00D8">>
      [] ch = "U+00F9" -> <<"U+00D9">> [] ch = "U+00FA" -> <<"U+00DA">>
      [] ch = "U+00FB" -> <<"U+00DB">> [] ch = "U+00FC" -> <<"U+00DC">>
      [] ch = "U+00FD" -> <<"U+00DD">> [] ch = "U+00FE" -> <<"U+00DE">>
      [] ch = "U+00FF" -> <<"U+0178">> [] ch = "U+03BC" -> <<"U+039C">>
      [] OTHER -> <<unchanged_char(ch)>>

\* str.upper() on a sequence of characters
RECURSIVE upper(_)
upper(cs) ==
    IF cs = <<>> THEN <<>> ELSE upper_char(Head(cs)) \o upper(Tail(cs))

\* str.capitalize(): the first character in title case, the rest in lower
\* case
capitalize(cs) ==
    IF cs = <<>> THEN <<>>
    ELSE title_char(Head(cs))
             \o [i \in 1..(Len(cs) - 1) |-> lower_char(cs[i + 1])]

\* the string spelled by a sequence of characters
RECURSIVE text_of(_)
text_of(cs) == IF cs = <<>> THEN "" ELSE Head(cs) \o text_of(Tail(cs))

\* str.lower(): every character in lower case
lower(s) == text_of([i \in DOMAIN chars(s) |-> lower_char(chars(s)[i])])

----------------------------------------------------------------------------
(* Configuration tables *)

CROP_CALENDAR ==
    [rice |-> [season |-> "Kharif", duration_days |-> 120,
               stages |-> <<"Nursery/Seedling", "Transplanting", "Vegetative",
                            "Tillering", "Panicle Initiation", "Flowering",
                            "Milk/Dough", "Maturity", "Harvesting">>],
     wheat |-> [season |-> "Rabi", duration_days |-> 120,
                stages |-> <<"Sowing", "Germination", "Tillering", "Jointing",
                             "Booting", "Heading", "Flowering",
                             "Grain Filling", "Maturity", "Harvesting">>],
     maize |-> [season |-> "Kharif/Zaid", duration_days |-> 110,
                stages |-> <<"Sowing", "Emergence", "Vegetative", "Tasseling",
                             "Silking", "Grain Filling", "Maturity",
                             "Harvesting">>],
     sugarcane |-> [season |-> "Annual", duration_days |-> 300,
                    stages |-> <<"Planting", "Germination", "Tillering",
                                 "Grand Growth", "Maturation", "Ripening",
                                 "Harvesting">>],
     mustard |-> [season |-> "Rabi", duration_days |-> 110,
                  stages |-> <<"Sowing", "Germination", "Rosette",
                               "Stem Elongation", "Flowering",
                               "Pod Formation", "Pod Filling", "Maturity",
                               "Harvesting">>]]

DISTRICT_CROPS ==
    [patna |-> [primary |-> <<"rice", "wheat", "potato">>,
                secondary |-> <<"mustard", "gram">>,
                specialty |-> <<"sugarcane">>],
     gaya |-> [primary |-> <<"wheat", "rice">>,
               secondary |-> <<"barley", "mustard">>,
               specialty |-> <<"gram">>],
     bhagalpur |-> [primary |-> <<"rice", "maize", "wheat">>,
                    secondary |-> <<"jute">>,
                    specialty |-> <<"groundnut">>],
     muzaffarpur |-> [primary |-> <<"sugarcane", "rice", "wheat">>,
                      secondary |-> <<"potato", "mustard">>,
                      specialty |-> <<"lentil">>],
     darbhanga |-> [primary |-> <<"rice", "wheat", "maize">>,
                    secondary |-> <<"gram">>,
                    specialty |-> <<"bajra">>],
     siwan |-> [primary |-> <<"rice", "wheat">>,
                secondary |-> <<"gram", "lentil">>,
                specialty |-> <<"mustard">>],
     begusarai |-> [primary |-> <<"rice", "wheat">>,
                    secondary |-> <<"jute", "mustard">>,
                    specialty |-> <<"moong">>],
     katihar |-> [primary |-> <<"maize", "rice">>,
                  secondary |-> <<"jute">>,
                  specialty |-> <<"jowar">>]]

\* the default of DISTRICT_CROPS.get(district.lower(), {...})
DefaultDistrictPrefs ==
    [primary |-> <<"rice", "wheat">>,
     secondary |-> <<"gram">>,
     specialty |-> <<"maize">>]

seasonal_crops ==
    [kharif |-> <<"rice", "maize", "sugarcane", "jowar", "bajra", "groundnut">>,
     rabi |-> <<"wheat", "barley", "gram", "lentil", "mustard", "potato">>,
     zaid |-> <<"maize", "moong", "watermelon", "cucumber">>]

stage_mappings ==
    [rice |-> (6 :> 0 @@ 7 :> 1 @@ 8 :> 2 @@ 9 :> 3 @@ 10 :> 4 @@ 11 :> 5
               @@ 12 :> 6 @@ 1 :> 7 @@ 2 :> 8),
     wheat |-> (11 :> 0 @@ 12 :> 1 @@ 1 :> 2 @@ 2 :> 3 @@ 3 :> 4 @@ 4 :> 5),
     maize |-> (6 :> 0 @@ 7 :> 1 @@ 8 :> 2 @@ 9 :> 3 @@ 10 :> 4 @@ 11 :> 5
                @@ 3 :> 0 @@ 4 :> 1 @@ 5 :> 2),
     sugarcane |-> (2 :> 0 @@ 3 :> 1 @@ 4 :> 2 @@ 5 :> 3 @@ 6 :> 3 @@ 7 :> 3
                    @@ 8 :> 4 @@ 9 :> 4 @@ 10 :> 5 @@ 11 :> 6 @@ 12 :> 6
                    @@ 1 :> 6),
     mustard |-> (10 :> 0 @@ 11 :> 1 @@ 12 :> 2 @@ 1 :> 3 @@ 2 :> 4
                  @@ 3 :> 5)]

----------------------------------------------------------------------------
(* Sequence helpers *)

Range(s) == {s[i] : i \in DOMAIN s}

Min(a, b) == IF a < b THEN a ELSE b

Max(a, b) == IF a > b THEN a ELSE b

\* [x for x in s if x in keep]
RECURSIVE Filter(_, _)
Filter(s, keep) ==
    IF s = <<>> THEN <<>>
    ELSE IF Head(s) \in keep THEN <<Head(s)>> \o Filter(Tail(s), keep)
         ELSE Filter(Tail(s), keep)

\* [x] * n
RECURSIVE Repeat(_, _)
Repeat(x, n) == IF n <= 0 THEN <<>> ELSE <<x>> \o Repeat(x, n - 1)

\* sum(s)
RECURSIVE Sum(_)
Sum(s) == IF s = <<>> THEN 0 ELSE Head(s) + Sum(Tail(s))

\* s[:n]
Prefix(s, n) == SubSeq(s, 1, Min(n, Len(s)))

----------------------------------------------------------------------------
(* Season classifier and crop selector *)

get_current_season_march_zaid(m) ==
    IF m \in {6, 7, 8, 9} THEN "kharif"
    ELSE IF m \in {10, 11, 12, 1, 2} THEN "rabi"
    ELSE "zaid"

get_current_season(m) ==
    IF m \in {6, 7, 8, 9} THEN "kharif"
    ELSE IF m \in {10, 11, 12, 1, 2, 3} THEN "rabi"
    ELSE "zaid"

\* DISTRICT_CROPS.get(district.lower(), default profile)
district_prefs(district) ==
    Get(district_crops, lower(district), DefaultDistrictPrefs)

all_district_crops(prefs) ==
    Get(prefs, "primary", <<>>) \o Get(prefs, "secondary", <<>>)
        \o Get(prefs, "specialty", <<>>)

suitable_crops_unfiltered(prefs, current_season) ==
    all_district_crops(prefs)

\* the season filter, then the fallback to the primary list
suitable_crops(prefs, current_season) ==
    LET filtered == Filter(all_district_crops(prefs),
                           Range(Get(seasonal_crops, current_season, <<>>)))
    IN  IF filtered = <<>> THEN Get(prefs, "primary", <<"rice">>)
        ELSE filtered

\* weight of one crop in the candidate list
crop_weight(prefs, c) ==
    IF c \in Range(Get(prefs, "primary", <<>>)) THEN 5
    ELSE IF c \in Range(Get(prefs, "secondary", <<>>)) THEN 3
    ELSE 1

RECURSIVE weighted_of(_, _)
weighted_of(prefs, s) ==
    IF s = <<>> THEN <<>>
    ELSE Repeat(Head(s), crop_weight(prefs, Head(s)))
             \o weighted_of(prefs, Tail(s))

weighted_crops(prefs, current_season) ==
    weighted_of(prefs, suitable_crops(prefs, current_season))

\* The list objects select_regional_crop and estimate_crop_stage hold.  A
\* heap maps a reference to the list it names: <<"DISTRICT_CROPS", d, k>> is
\* the list DISTRICT_CROPS[d][k], <<"CROP_CALENDAR", c, "stages">> the list
\* CROP_CALENDAR[c]['stages'], <<"default", "", k>> a list of the dict
\* literal handed to DISTRICT_CROPS.get, and <<"local", "", n>> the list
\* a call created and bound to its name n.
district_crops_heap ==
    [r \in UNION {{<<"DISTRICT_CROPS", d, k>> :
                        k \in DOMAIN district_crops[d]} :
                            d \in DOMAIN district_crops}
        |-> district_crops[r[2]][r[3]]]

\* DISTRICT_CROPS as the heap shows it
district_crops_of(heap) ==
    [d \in DOMAIN district_crops |->
        [k \in DOMAIN district_crops[d] |-> heap[<<"DISTRICT_CROPS", d, k>>]]]

crop_calendar_heap ==
    [r \in {<<"CROP_CALENDAR", c, "stages">> : c \in DOMAIN crop_calendar}
        |-> crop_calendar[r[2]].stages]

\* CROP_CALENDAR as the heap shows it
crop_calendar_of(heap) ==
    [c \in DOMAIN crop_calendar |->
        [crop_calendar[c] EXCEPT
             !.stages = heap[<<"CROP_CALENDAR", c, "stages">>]]]

\* the lists the dict district_prefs holds: those of the table's entry
\* themselves, or those of the default dict built for the call
district_prefs_refs(district) ==
    IF lower(district) \in DOMAIN district_crops
    THEN [k \in DOMAIN district_crops[lower(district)] |->
              <<"DISTRICT_CROPS", lower(district), k>>]
    ELSE [k \in DOMAIN DefaultDistrictPrefs |-> <<"default", "", k>>]

\* the dict district_prefs, read through its references
prefs_of(heap, refs) == [k \in DOMAIN refs |-> heap[refs[k]]]

\* the list the name suitable_crops is bound to when the loop starts: the
\* list the comprehension built, or, when that is empty, the primary list
\* district_prefs holds (no copy is made)
suitable_crops_ref(district, current_season) ==
    LET refs == district_prefs_refs(district)
        filtered == Filter(all_district_crops(district_prefs(district)),
                           Range(Get(seasonal_crops, current_season, <<>>)))
    IN  IF filtered # <<>> THEN <<"local", "", "suitable_crops">>
        ELSE IF "primary" \in DOMAIN refs THEN refs.primary
        ELSE <<"local", "", "rice">>

\* the list the name weighted_crops is bound to: a new, empty one
weighted_crops_ref == <<"local", "", "weighted_crops">>

\* the heap when the loop starts
select_heap(district, current_season) ==
    LET filtered == Filter(all_district_crops(district_prefs(district)),
                           Range(Get(seasonal_crops, current_season, <<>>)))
    IN  district_crops_heap
            @@ [r \in {<<"default", "", k>> : k \in DOMAIN DefaultDistrictPrefs}
                   |-> DefaultDistrictPrefs[r[3]]]
            @@ (<<"local", "", "suitable_crops">> :> filtered)
            @@ (<<"local", "", "rice">> :> <<"rice">>)
            @@ (weighted_crops_ref :> <<>>)

\* target.extend([crop] * weight) for every crop of crops, the weight read
\* from the lists district_prefs holds at that moment
RECURSIVE extend_each(_, _, _, _)
extend_each(heap, target, refs, crops) ==
    IF crops = <<>> THEN heap
    ELSE extend_each(
             [heap EXCEPT ![target] =
                  @ \o Repeat(Head(crops),
                              crop_weight(prefs_of(heap, refs), Head(crops)))],
             target, refs, Tail(crops))

\* the heap when select_regional_crop returns: the loop runs over the list
\* suitable_crops names and extends the list weighted_crops names
heap_after_select(district, state, current_month) ==
    IF lower(state) # "bihar" THEN district_crops_heap
    ELSE LET current_season == get_current_season(current_month)
             heap == select_heap(district, current_season)
         IN  extend_each(heap, weighted_crops_ref,
                         district_prefs_refs(district),
                         heap[suitable_crops_ref(district, current_season)])

district_crops_after_select_extends_alias(district, state, current_month) ==
    IF lower(state) # "bihar" THEN district_crops
    ELSE LET current_season == get_current_season(current_month)
             heap == select_heap(district, current_season)
             suitable == suitable_crops_ref(district, current_season)
         IN  district_crops_of(
                 extend_each(heap, suitable, district_prefs_refs(district),
                             heap[suitable]))

\* DISTRICT_CROPS after one call of select_regional_crop
district_crops_after_select(district, state, current_month) ==
    district_crops_of(heap_after_select(district, state, current_month))

\* the heap when estimate_crop_stage returns: stages names the table's own
\* list, to which the call applies len() and indexing only
heap_after_estimate(c, current_month) ==
    crop_calendar_heap

\* CROP_CALENDAR after one call of estimate_crop_stage
crop_calendar_after_estimate(c, current_month) ==
    crop_calendar_of(heap_after_estimate(c, current_month))

\* the list random.choice draws from; no list is built for another state
weighted_candidates(district, state, current_month) ==
    IF lower(state) # "bihar" THEN <<>>
    ELSE heap_after_select(district, state, current_month)[weighted_crops_ref]

\* the crops random.choice can return, for the month the clock shows
select_regional_crop(district, state, current_month) ==
    IF lower(state) # "bihar" THEN {"rice"}
    ELSE LET w == weighted_crops(district_prefs(district),
                                 get_current_season(current_month))
         IN  IF w = <<>> THEN {"rice"} ELSE Range(w)

stage_index_of_unclamped(c, current_month) ==
    IF c \notin DOMAIN crop_calendar THEN NoneVal
    ELSE LET stages == crop_calendar[c].stages
             crop_mapping == Get(stage_mappings, c, EmptyDict)
         IN  <<Get(crop_mapping, current_month, Len(stages))>>

\* stage_index of the month-based estimate (0-based, as in the code); no
\* index is computed for a crop outside CROP_CALENDAR
stage_index_of(c, current_month) ==
    IF c \notin DOMAIN crop_calendar THEN NoneVal
    ELSE LET stages == crop_calendar[c].stages
             crop_mapping == Get(stage_mappings, c, EmptyDict)
         IN  <<Min(Get(crop_mapping, current_month, Len(stages) \div 2),
                   Len(stages) - 1)>>

\* stages[i] of a Python list: "IndexError" outside [-len, len-1], a
\* negative i counts from the end
PyIndex(stages, i) ==
    IF i >= Len(stages) \/ i < 0 - Len(stages) THEN "IndexError"
    ELSE IF i < 0 THEN stages[Len(stages) + i + 1]
    ELSE stages[i + 1]

\* month-based stage estimate
estimate_crop_stage(c, current_month) ==
    IF c \notin DOMAIN crop_calendar THEN "Growing"
    ELSE LET stages == crop_calendar[c].stages
         IN  IF stages # <<>>
             THEN PyIndex(stages, stage_index_of(c, current_month)[1])
             ELSE "Growing"

----------------------------------------------------------------------------
(* The second copy of the selector and the estimator, bihar_agmcp_server.py:
   CROP_CALENDAR and get_current_season are the same as in server.py *)

agmcp_DISTRICT_CROPS ==
    [patna |-> [primary |-> <<"rice", "wheat", "potato">>,
                secondary |-> <<"mustard", "gram">>,
                specialty |-> <<"sugarcane">>],
     gaya |-> [primary |-> <<"wheat", "rice">>,
               secondary |-> <<"barley", "mustard">>,
               specialty |-> <<"gram">>],
     bhagalpur |-> [primary |-> <<"rice", "maize", "wheat">>,
                    secondary |-> <<"jute">>,
                    specialty |-> <<"groundnut">>],
     muzaffarpur |-> [primary |-> <<"sugarcane", "rice", "wheat">>,
                      secondary |-> <<"potato", "mustard">>,
                      specialty |-> <<"lentil">>],
     darbhanga |-> [primary |-> <<"rice", "wheat", "maize">>,
                    secondary |-> <<"gram">>,
                    specialty |-> <<"bajra">>]]

agmcp_seasonal_crops ==
    [kharif |-> <<"rice", "maize", "sugarcane">>,
     rabi |-> <<"wheat", "barley", "gram", "mustard">>,
     zaid |-> <<"maize", "moong">>]

agmcp_stage_mappings ==
    [rice |-> (6 :> 0 @@ 7 :> 1 @@ 8 :> 2 @@ 9 :> 3 @@ 10 :> 4 @@ 11 :> 5),
     wheat |-> (11 :> 0 @@ 12 :> 1 @@ 1 :> 2 @@ 2 :> 3 @@ 3 :> 4),
     maize |-> (6 :> 0 @@ 7 :> 1 @@ 8 :> 2 @@ 9 :> 3)]

agmcp_district_prefs_no_default(district) ==
    Get(agmcp_DISTRICT_CROPS, lower(district),
        [primary |-> <<>>, secondary |-> <<>>, specialty |-> <<>>])

agmcp_district_prefs(district) ==
    Get(agmcp_DISTRICT_CROPS, lower(district), DefaultDistrictPrefs)

\* the season filter and the fallback to the primary list; this is the
\* list random.choice draws from, no weighted list is built in this copy
agmcp_suitable_crops(district, current_month) ==
    LET prefs == agmcp_district_prefs(district)
        filtered == Filter(all_district_crops(prefs),
                           Range(Get(agmcp_seasonal_crops,
                                     get_current_season(current_month),
                                     <<>>)))
    IN  IF filtered = <<>> THEN Get(prefs, "primary", <<"rice">>)
        ELSE filtered

\* the crops random.choice can return; the state argument is not read
agmcp_select_regional_crop(district, state, current_month) ==
    LET s == agmcp_suitable_crops(district, current_month)
    IN  IF s = <<>> THEN {"rice"} ELSE Range(s)

agmcp_stage_index_of(c, current_month) ==
    IF c \notin DOMAIN CROP_CALENDAR THEN NoneVal
    ELSE LET stages == CROP_CALENDAR[c].stages
             crop_mapping == Get(agmcp_stage_mappings, c, EmptyDict)
         IN  <<Min(Get(crop_mapping, current_month, Len(stages) \div 2),
                   Len(stages) - 1)>>

agmcp_estimate_crop_stage(c, current_month) ==
    IF c \notin DOMAIN CROP_CALENDAR THEN "Growing"
    ELSE LET stages == CROP_CALENDAR[c].stages
         IN  IF stages # <<>>
             THEN PyIndex(stages, agmcp_stage_index_of(c, current_month)[1])
             ELSE "Growing"

----------------------------------------------------------------------------
(* The planting-date stage estimator of tools/crop_calendar_tools.py, which
   has a calendar table of its own; only the stages of a crop are read *)

tools_CROP_CALENDAR ==
    [
     rice |-> [stages |-> <<"Nursery/Seedling", "Transplanting", "Vegetative", "Tillering", "Panicle Initiation", "Flowering", "Milk/Dough", "Maturity", "Harvesting">>],
     wheat |-> [stages |-> <<"Sowing", "Germination", "Tillering", "Jointing", "Booting", "Heading", "Flowering", "Grain Filling", "Maturity", "Harvesting">>],
     maize |-> [stages |-> <<"Sowing", "Emergence", "Vegetative", "Tasseling", "Silking", "Grain Filling", "Maturity", "Harvesting">>],
     barley |-> [stages |-> <<"Sowing", "Germination", "Tillering", "Jointing", "Booting", "Heading", "Flowering", "Grain Filling", "Maturity", "Harvesting">>],
     gram |-> [stages |-> <<"Sowing", "Germination", "Vegetative", "Flowering", "Pod Formation", "Pod Filling", "Maturity", "Harvesting">>],
     lentil |-> [stages |-> <<"Sowing", "Germination", "Vegetative", "Flowering", "Pod Formation", "Pod Filling", "Maturity", "Harvesting">>],
     pea |-> [stages |-> <<"Sowing", "Germination", "Vegetative", "Flowering", "Pod Formation", "Pod Filling", "Maturity", "Harvesting">>],
     mustard |-> [stages |-> <<"Sowing", "Germination", "Rosette", "Stem Elongation", "Flowering", "Pod Formation", "Pod Filling", "Maturity", "Harvesting">>],
     linseed |-> [stages |-> <<"Sowing", "Germination", "Vegetative", "Flowering", "Capsule Formation", "Seed Filling", "Maturity", "Harvesting">>],
     potato |-> [stages |-> <<"Planting", "Sprouting", "Vegetative", "Tuber Initiation", "Tuber Bulking", "Maturity", "Harvesting">>],
     arhar |-> [stages |-> <<"Sowing", "Germination", "Vegetative", "Flowering", "Pod Formation", "Pod Filling", "Maturity", "Harvesting">>],
     moong |-> [stages |-> <<"Sowing", "Germination", "Vegetative", "Flowering", "Pod Formation", "Pod Filling", "Maturity", "Harvesting">>],
     urd |-> [stages |-> <<"Sowing", "Germination", "Vegetative", "Flowering", "Pod Formation", "Pod Filling", "Maturity", "Harvesting">>],
     jowar |-> [stages |-> <<"Sowing", "Germination", "Vegetative", "Booting", "Flowering", "Grain Filling", "Maturity", "Harvesting">>],
     bajra |-> [stages |-> <<"Sowing", "Germination", "Vegetative", "Booting", "Flowering", "Grain Filling", "Maturity", "Harvesting">>],
     groundnut |-> [stages |-> <<"Sowing", "Germination", "Vegetative", "Flowering", "Pegging", "Pod Formation", "Pod Filling", "Maturity", "Harvesting">>],
     soybean |-> [stages |-> <<"Sowing", "Germination", "Vegetative", "Flowering", "Pod Formation", "Pod Filling", "Maturity", "Harvesting">>],
     watermelon |-> [stages |-> <<"Sowing", "Germination", "Vegetative", "Flowering", "Fruit Setting", "Fruit Development", "Maturity", "Harvesting">>],
     cucumber |-> [stages |-> <<"Sowing", "Germination", "Vegetative", "Flowering", "Fruit Setting", "Fruit Development", "Maturity", "Harvesting">>]]

crop_durations ==
    [rice |-> 120, wheat |-> 120, maize |-> 110, barley |-> 110,
     gram |-> 110, lentil |-> 110, pea |-> 100, mustard |-> 110,
     linseed |-> 110, potato |-> 100, arhar |-> 150, moong |-> 70,
     urd |-> 70, jowar |-> 100, bajra |-> 90, groundnut |-> 110,
     soybean |-> 100, watermelon |-> 80, cucumber |-> 70]

\* date.fromisoformat gives year, month and day; a date is modelled as
\* that triple, and the day count of date.__sub__ is the difference of
\* the proleptic Gregorian ordinals
is_leap(y) == y % 4 = 0 /\ (y % 100 # 0 \/ y % 400 = 0)

days_before_month(y, m) ==
    <<0, 31, 59, 90, 120, 151, 181, 212, 243, 273, 304, 334>>[m]
        + (IF m > 2 /\ is_leap(y) THEN 1 ELSE 0)

toordinal(d) ==
    LET y == d[1] - 1
    IN  y * 365 + (y \div 4) - (y \div 100) + (y \div 400)
            + days_before_month(d[1], d[2]) + d[3]

days_since_planting_of(plant_date, current_date) ==
    toordinal(current_date) - toordinal(plant_date)

\* total_duration // len(stages)
stage_length_of(c) ==
    Get(crop_durations, c, 100) \div Len(tools_CROP_CALENDAR[c].stages)

tools_stage_index_of_unclamped(c, days_since_planting) ==
    days_since_planting \div stage_length_of(c)

\* min(days_since_planting // stage_length, len(stages) - 1); the floor
\* division of Python and \div agree for a positive divisor
tools_stage_index_of(c, days_since_planting) ==
    Min(days_since_planting \div stage_length_of(c),
        Len(tools_CROP_CALENDAR[c].stages) - 1)

\* what the estimator returns: the dict with the stage, the dict with the
\* error for a crop outside the table, or the IndexError that the list
\* access raises
tools_estimate_crop_stage(c, plant_date, current_date) ==
    IF lower(c) \in DOMAIN tools_CROP_CALENDAR
    THEN LET got == PyIndex(tools_CROP_CALENDAR[lower(c)].stages,
                            tools_stage_index_of(lower(c),
                                days_since_planting_of(plant_date,
                                                       current_date)))
         IN  IF got = "IndexError" THEN [raised |-> "IndexError"]
             ELSE [stage |-> got]
    ELSE [error |-> "Crop not found"]

----------------------------------------------------------------------------
(* Rule-based alert classifier *)

\* the f-string of one rule: which template, the names and the numbers it
\* interpolates (the numbers are rendered with one decimal by the f-string,
\* which the model does not carry out)
Message(template, names, nums) ==
    [kind |-> "rule", template |-> template, names |-> names, nums |-> nums]

next_3_days_rain_of_all_days(daily_forecast) ==
    LET precipitation_list ==
            Get(daily_forecast, "precipitation_sum", <<0, 0, 0>>)
    IN  IF precipitation_list # <<>> THEN Sum(precipitation_list)
        ELSE 0

next_3_days_rain_of(daily_forecast) ==
    LET precipitation_list ==
            Get(daily_forecast, "precipitation_sum", <<0, 0, 0>>)
    IN  IF precipitation_list # <<>> THEN Sum(Prefix(precipitation_list, 3))
        ELSE 0

matching_rule_heat_first(current_temp, current_windspeed, rain) ==
    IF rain < 8 /\ current_temp > 140 THEN "heat_drought_warning"
    ELSE IF current_temp < 40 THEN "cold_warning"
    ELSE IF current_windspeed > 120 THEN "high_wind_warning"
    ELSE IF rain > 100 THEN "heavy_rain_warning"
    ELSE IF rain > 40 THEN "moderate_rain_warning"
    ELSE "weather_update"

\* the conditions of the if / elif chain: the alert_type of the first
\* branch whose condition holds
matching_rule(current_temp, current_windspeed, rain) ==
    IF rain > 100 THEN "heavy_rain_warning"
    ELSE IF rain > 40 THEN "moderate_rain_warning"
    ELSE IF rain < 8 /\ current_temp > 140
        THEN "heat_drought_warning"
    ELSE IF current_temp < 40 THEN "cold_warning"
    ELSE IF current_windspeed > 120 THEN "high_wind_warning"
    ELSE "weather_update"

rule_urgency_wind_critical(alert_type) ==
    CASE alert_type = "heavy_rain_warning" -> "high"
      [] alert_type = "moderate_rain_warning" -> "medium"
      [] alert_type = "heat_drought_warning" -> "high"
      [] alert_type = "cold_warning" -> "medium"
      [] alert_type = "high_wind_warning" -> "critical"
      [] OTHER -> "low"

\* the urgency each branch assigns
rule_urgency(alert_type) ==
    CASE alert_type = "heavy_rain_warning" -> "high"
      [] alert_type = "moderate_rain_warning" -> "medium"
      [] alert_type = "heat_drought_warning" -> "high"
      [] alert_type = "cold_warning" -> "medium"
      [] alert_type = "high_wind_warning" -> "medium"
      [] OTHER -> "low"

rule_action_items_cold_empty(alert_type) ==
    CASE alert_type = "heavy_rain_warning" ->
            <<"delay_fertilizer", "check_drainage", "monitor_crops",
              "prepare_harvest_protection">>
      [] alert_type = "moderate_rain_warning" ->
            <<"monitor_soil", "check_drainage", "adjust_irrigation">>
      [] alert_type = "heat_drought_warning" ->
            <<"increase_irrigation", "mulch_crops", "monitor_plant_stress">>
      [] alert_type = "cold_warning" -> <<>>
      [] alert_type = "high_wind_warning" ->
            <<"secure_supports", "check_structures", "monitor_damage">>
      [] OTHER -> <<"routine_monitoring", "maintain_irrigation">>

\* the action_items each branch assigns
rule_action_items(alert_type) ==
    CASE alert_type = "heavy_rain_warning" ->
            <<"delay_fertilizer", "check_drainage", "monitor_crops",
              "prepare_harvest_protection">>
      [] alert_type = "moderate_rain_warning" ->
            <<"monitor_soil", "check_drainage", "adjust_irrigation">>
      [] alert_type = "heat_drought_warning" ->
            <<"increase_irrigation", "mulch_crops", "monitor_plant_stress">>
      [] alert_type = "cold_warning" ->
            <<"protect_crops", "cover_seedlings", "adjust_irrigation_timing">>
      [] alert_type = "high_wind_warning" ->
            <<"secure_supports", "check_structures", "monitor_damage">>
      [] OTHER -> <<"routine_monitoring", "maintain_irrigation">>

\* the alert_message each branch builds
rule_message(alert_type, current_temp, current_windspeed, rain, c, st, v, d) ==
    CASE alert_type = "heavy_rain_warning" ->
            Message("heavy_rain", <<v, d, c, st>>, <<rain>>)
      [] alert_type = "moderate_rain_warning" ->
            Message("moderate_rain", <<v, d, c, st>>, <<rain>>)
      [] alert_type = "heat_drought_warning" ->
            Message("heat_drought", <<v, d, c, st>>, <<current_temp>>)
      [] alert_type = "cold_warning" ->
            Message("cold", <<v, d, c>>, <<current_temp>>)
      [] alert_type = "high_wind_warning" ->
            Message("high_wind", <<v, d, c>>, <<current_windspeed>>)
      [] OTHER ->
            Message("normal", <<v, d, c, st>>, <<current_temp, rain>>)

generate_weather_based_alert(weather_data, c, st, v, d) ==
    LET current_weather == Get(weather_data, "current_weather", EmptyDict)
        daily_forecast == Get(weather_data, "daily", EmptyDict)
        current_temp == Get(current_weather, "temperature", 100)
        current_windspeed == Get(current_weather, "windspeed", 40)
        next_3_days_rain == next_3_days_rain_of(daily_forecast)
        alert_type == matching_rule(current_temp, current_windspeed,
                                    next_3_days_rain)
    IN  [type |-> alert_type,
         urgency |-> rule_urgency(alert_type),
         message |-> rule_message(alert_type, current_temp, current_windspeed,
                                  next_3_days_rain, c, st, v, d),
         action_items |-> rule_action_items(alert_type)]

----------------------------------------------------------------------------
(* AI narrative: the part of generate_ai_alert after the LLM answered *)

\* a JSON value: its type t and s, the text str() gives for it:
\* [t |-> "str", s |-> text], [t |-> "null", s |-> "None"],
\* [t |-> "list", s |-> its str()], [t |-> "num", s |-> its str()],
\* [t |-> "bool", s |-> its str()],
\* [t |-> "dict", s |-> its str(), d |-> members]
Str(text) == [t |-> "str", s |-> text]

PyNone == [t |-> "null", s |-> "None"]

\* bool(value): None, "", [], {}, 0 and False are false
Truthy(v) ==
    CASE v.t = "null" -> FALSE
      [] v.t = "str" -> v.s # ""
      [] v.t = "list" -> v.s # "[]"
      [] v.t = "dict" -> v.d # EmptyDict
      [] v.t = "num" -> v.s \notin {"0", "0.0", "-0.0"}
      [] v.t = "bool" -> v.s = "True"

\* the text of the enhanced alert message
AiMessage(template, names) ==
    [kind |-> "ai", template |-> template, names |-> names, nums |-> <<>>]

\* impact_description and impact_description.lower() not in [...]: the
\* impact part is appended for a str only, .lower() raises on anything else
impact_is_shown(impact_description) ==
    /\ Truthy(impact_description)
    /\ impact_description.t = "str"
    /\ lower(impact_description.s) \notin {"none", "n/a", ""}

\* .lower() on a truthy value that is not a str raises AttributeError
impact_check_raises(impact_description) ==
    Truthy(impact_description) /\ impact_description.t # "str"

\* "Extract AI response": the isinstance(ai_alert, dict) branch and its else
ai_alert_fields(ai_alert) ==
    IF ai_alert.t = "dict" THEN
        [alert |-> Get(ai_alert.d, "alert",
                       Str("Weather update for agricultural activities")),
         impact |-> Get(ai_alert.d, "impact", Str("Monitor crops regularly")),
         recommendations |-> Get(ai_alert.d, "recommendations",
                                 Str("Continue routine farming activities"))]
    ELSE
        [alert |-> Str(ai_alert.s),
         impact |-> Str("Monitor crops regularly"),
         recommendations |->
             Str("Follow weather updates and maintain good practices")]

\* what generate_ai_alert returns once generate_weather_alert has returned
\* ai_alert: NoneVal when the impact check raises, the dict otherwise.  The
\* f-strings write str() of alert_description and of impact_description
ai_analysis_of(ai_alert, c, st, v, d) ==
    LET f == ai_alert_fields(ai_alert)
    IN  IF impact_check_raises(f.impact) THEN NoneVal
        ELSE <<[alert |-> f.alert,
                impact |-> f.impact,
                recommendations |-> f.recommendations,
                enhanced_message |->
                    IF impact_is_shown(f.impact)
                    THEN AiMessage("ai_alert_with_impact",
                                   <<v, d, f.alert.s, c, st, f.impact.s>>)
                    ELSE AiMessage("ai_alert", <<v, d, f.alert.s>>)]>>

----------------------------------------------------------------------------
(* Record assembly: steps 8 and the "Build final response" of               *)
(* generate_dynamic_alert                                                   *)

\* int(x * k) of a value given in quarters: truncation towards zero
TruncMul(x, k) ==
    IF x >= 0 THEN (x * k) \div 4 ELSE -(((-x) * k) \div 4)

rain_probability_of_rounded(next_3_days_rain) ==
    IF next_3_days_rain > 0
    THEN Min(90, Max(10, (next_3_days_rain * 10 + 2) \div 4))
    ELSE 10

rain_probability_of(next_3_days_rain) ==
    IF next_3_days_rain > 0
    THEN Min(90, Max(10, TruncMul(next_3_days_rain, 10)))
    ELSE 10

estimated_humidity_of(next_3_days_rain) ==
    Min(95, Max(40, 60 + TruncMul(next_3_days_rain, 2)))

\* the decimal digits of n, zero-padded to the given width (%Y, %m, %d,
\* %H, %M, %S of strftime)
RECURSIVE zero_padded(_, _)
zero_padded(n, width) ==
    IF width = 0 THEN <<>>
    ELSE zero_padded(n \div 10, width - 1)
             \o <<(<<"0", "1", "2", "3", "4", "5", "6", "7", "8", "9">>)[
                      (n % 10) + 1]>>

\* datetime.strftime('%Y%m%d_%H%M%S') of <<year, month, day, hour, minute,
\* second>>
strftime(now) ==
    zero_padded(now[1], 4) \o zero_padded(now[2], 2)
        \o zero_padded(now[3], 2) \o <<"_">> \o zero_padded(now[4], 2)
        \o zero_padded(now[5], 2) \o zero_padded(now[6], 2)

\* str(n) of an int n >= 0
RECURSIVE decimal(_)
decimal(n) ==
    IF n < 10 THEN zero_padded(n, 1)
    ELSE decimal(n \div 10) \o zero_padded(n % 10, 1)

\* f"{x:.1f}" of the float x / 4: the digit after the point is that of the
\* nearest tenth, and of the even one when two are equally near (0.25 gives
\* 0.2, 0.75 gives 0.8)
format_1f(x) ==
    LET a == IF x < 0 THEN -x ELSE x
    IN  (IF x < 0 THEN <<"-">> ELSE <<>>) \o decimal(a \div 4) \o <<".">>
            \o <<(<<"0", "2", "5", "8">>)[(a % 4) + 1]>>

\* datetime.isoformat() of <<year, month, day, hour, minute, second,
\* microsecond>>: the microseconds are left out when they are 0
isoformat(now) ==
    zero_padded(now[1], 4) \o <<"-">> \o zero_padded(now[2], 2) \o <<"-">>
        \o zero_padded(now[3], 2) \o <<"T">> \o zero_padded(now[4], 2)
        \o <<":">> \o zero_padded(now[5], 2) \o <<":">>
        \o zero_padded(now[6], 2)
        \o (IF now[7] = 0 THEN <<>> ELSE <<".">> \o zero_padded(now[7], 6))

\* the number of days of month m of year y
days_in_month(y, m) ==
    IF m = 2 THEN (IF is_leap(y) THEN 29 ELSE 28)
    ELSE IF m \in {4, 6, 9, 11} THEN 30 ELSE 31

\* now + timedelta(days=n)
RECURSIVE plus_days(_, _)
plus_days(now, n) ==
    IF n = 0 THEN now
    ELSE IF now[3] < days_in_month(now[1], now[2])
        THEN plus_days([now EXCEPT ![3] = @ + 1], n - 1)
    ELSE IF now[2] < 12
        THEN plus_days([now EXCEPT ![2] = @ + 1, ![3] = 1], n - 1)
    ELSE plus_days([now EXCEPT ![1] = @ + 1, ![2] = 1, ![3] = 1], n - 1)

alert_id_of_state_three(state, district, village, now) ==
    Prefix(upper(chars(state)), 3) \o <<"_">>
        \o Prefix(upper(chars(district)), 3) \o <<"_">>
        \o Prefix(upper(chars(village)), 3) \o <<"_">> \o strftime(now)

\* the f-string of alert_id, as a sequence of characters
alert_id_of(state, district, village, now) ==
    Prefix(upper(chars(state)), 2) \o <<"_">>
        \o Prefix(upper(chars(district)), 3) \o <<"_">>
        \o Prefix(upper(chars(village)), 3) \o <<"_">> \o strftime(now)

alert_message_of_template_only(ai_analysis, classification) ==
    classification.message

\* ai_analysis['enhanced_message'] if ai_analysis else alert_message
alert_message_of(ai_analysis, classification) ==
    IF ai_analysis # NoneVal THEN ai_analysis[1].enhanced_message
    ELSE classification.message

data_source_of_rules_only(ai_analysis) ==
    "open_meteo_api"

\* "open_meteo_api_with_ai_enhancement" if ai_analysis else "open_meteo_api"
data_source_of(ai_analysis) ==
    IF ai_analysis # NoneVal
    THEN "open_meteo_api_with_ai_enhancement"
    ELSE "open_meteo_api"

\* "Build final response"; nows are the four readings of datetime.now()
\* in the order of the lines that make them: alert_id, timestamp, season,
\* valid_until
build_result(district, state, village, villages, loc, c, st, current_weather_data, forecast_data, classification, ai_analysis, nows) ==
    LET current_weather == Get(current_weather_data, "current_weather",
                               EmptyDict)
        daily_forecast == Get(forecast_data, "daily", EmptyDict)
        current_temp == Get(current_weather, "temperature", 100)
        current_windspeed == Get(current_weather, "windspeed", 40)
        next_3_days_rain == next_3_days_rain_of(daily_forecast)
        base ==
          [alert_id |-> alert_id_of(state, district, village, nows[1]),
           timestamp |-> isoformat(nows[2]) \o <<"Z">>,
           location |-> [village |-> village,
                         district |-> district,
                         state |-> text_of(capitalize(chars(state))),
                         coordinates |-> loc.coords,
                         coordinates_source |-> loc.source,
                         total_villages_in_district |-> Len(villages)],
           crop |-> [name |-> c, stage |-> st,
                     season |-> get_current_season(nows[3][2]),
                     planted_estimate |-> "2025-06-15"],
           alert |-> [type |-> classification.type,
                      urgency |-> classification.urgency,
                      message |-> alert_message_of(ai_analysis,
                                                   classification),
                      action_items |-> classification.action_items,
                      valid_until |->
                          isoformat(plus_days(nows[4], 3)) \o <<"Z">>,
                      ai_generated |-> (ai_analysis # NoneVal)],
           weather |-> [forecast_days |-> 7,
                        rain_probability |->
                            rain_probability_of(next_3_days_rain),
                        expected_rainfall |->
                            format_1f(next_3_days_rain) \o <<"m", "m">>,
                        temperature |->
                            format_1f(current_temp)
                                \o <<"U+00AC", "U+221E", "C">>,
                        humidity |->
                            decimal(estimated_humidity_of(next_3_days_rain))
                                \o <<"%">>,
                        wind_speed |->
                            format_1f(current_windspeed)
                                \o <<" ", "k", "m", "/", "h">>,
                        coordinates_source |-> loc.source],
           data_source |-> data_source_of(ai_analysis)]
    IN  IF ai_analysis # NoneVal
        THEN base @@ ("ai_analysis" :>
                        [alert |-> ai_analysis[1].alert,
                         impact |-> ai_analysis[1].impact,
                         recommendations |-> ai_analysis[1].recommendations])
        ELSE base

----------------------------------------------------------------------------
(* Channel formatters of a2a_agents. A text is the sequence of its
   characters; a character outside ASCII is written as its code point *)

\* the table of to_hindi, in the order the loop visits it
translations ==
    <<
      <<<<"H", "e", "a", "v", "y", " ", "r", "a", "i", "n", "f", "a", "l",
          "l">>,
        <<"U+092D", "U+093E", "U+0930", "U+0940", " ", "U+0935", "U+0930",
          "U+094D", "U+0937", "U+093E">>>>,
      <<<<"e", "x", "p", "e", "c", "t", "e", "d", " ", "i", "n", " ", "n",
          "e", "x", "t", " ", "2", " ", "d", "a", "y", "s", ".">>,
        <<"U+0905", "U+0917", "U+0932", "U+0947", " ", "2", " ", "U+0926",
          "U+093F", "U+0928", "U+094B", "U+0902", " ", "U+092E", "U+0947",
          "U+0902", " ", "U+0905", "U+092A", "U+0947", "U+0915", "U+094D",
          "U+0937", "U+093F", "U+0924", "U+0964">>>>,
      <<<<"D", "e", "l", "a", "y", " ", "f", "e", "r", "t", "i", "l", "i",
          "z", "e", "r", " ", "a", "p", "p", "l", "i", "c", "a", "t", "i",
          "o", "n", ".">>,
        <<"U+0909", "U+0930", "U+094D", "U+0935", "U+0930", "U+0915", " ",
          "U+0906", "U+0935", "U+0947", "U+0926", "U+0928", " ", "U+092E",
          "U+0947", "U+0902", " ", "U+0926", "U+0947", "U+0930", "U+0940",
          " ", "U+0915", "U+0930", "U+0947", "U+0902", "U+0964">>>>,
      <<<<"E", "n", "s", "u", "r", "e", " ", "p", "r", "o", "p", "e", "r",
          " ", "d", "r", "a", "i", "n", "a", "g", "e", ".">>,
        <<"U+0909", "U+091A", "U+093F", "U+0924", " ", "U+091C", "U+0932",
          " ", "U+0928", "U+093F", "U+0915", "U+093E", "U+0938", "U+0940",
          " ", "U+0938", "U+0941", "U+0928", "U+093F", "U+0936", "U+094D",
          "U+091A", "U+093F", "U+0924", " ", "U+0915", "U+0930", "U+0947",
          "U+0902", "U+0964">>>>,
      <<<<"r", "i", "c", "e">>,
        <<"U+091A", "U+093E", "U+0935", "U+0932">>>>,
      <<<<"f", "l", "o", "w", "e", "r", "i", "n", "g">>,
        <<"U+092B", "U+0942", "U+0932">>>>,
      <<<<"w", "e", "a", "t", "h", "e", "r", "_", "w", "a", "r", "n", "i",
          "n", "g">>,
        <<"U+092E", "U+094C", "U+0938", "U+092E", " ", "U+0915", "U+0940",
          " ", "U+091A", "U+0947", "U+0924", "U+093E", "U+0935", "U+0928",
          "U+0940">>>>,
      <<<<"h", "i", "g", "h">>,
        <<"U+0909", "U+091A", "U+094D", "U+091A">>>>,
      <<<<"K", "u", "m", "h", "r", "a", "r">>,
        <<"U+0915", "U+0941", "U+092E", "U+094D", "U+0939", "U+0930",
          "U+093E", "U+0930">>>>,
      <<<<"P", "a", "t", "n", "a">>,
        <<"U+092A", "U+091F", "U+0928", "U+093E">>>>,
      <<<<"B", "i", "h", "a", "r">>,
        <<"U+092C", "U+093F", "U+0939", "U+093E", "U+0930">>>>,
      <<<<"A", "l", "e", "r", "t">>,
        <<"U+091A", "U+0947", "U+0924", "U+093E", "U+0935", "U+0928",
          "U+0940">>>>,
      <<<<"C", "r", "o", "p">>,
        <<"U+092B", "U+0938", "U+0932">>>>,
      <<<<"S", "t", "a", "g", "e">>,
        <<"U+091A", "U+0930", "U+0923">>>>,
      <<<<"U", "r", "g", "e", "n", "c", "y">>,
        <<"U+0924", "U+093E", "U+0924", "U+094D", "U+0915", "U+093E",
          "U+0932", "U+093F", "U+0915", "U+0924", "U+093E">>>>,
      <<<<"A", "c", "t", "i", "o", "n">>,
        <<"U+0915", "U+093E", "U+0930", "U+094D", "U+092F">>>>>>

\* the positions at which en occurs in text
occurrences(text, en) ==
    {i \in 1..(Len(text) - Len(en) + 1) :
        SubSeq(text, i, i + Len(en) - 1) = en}

\* text.replace(en, hi): every occurrence, left to right, no overlap
RECURSIVE replace(_, _, _)
replace(text, en, hi) ==
    LET occ == occurrences(text, en)
    IN  IF occ = {} THEN text
        ELSE LET i == CHOOSE j \in occ : \A k \in occ : j <= k
             IN  SubSeq(text, 1, i - 1) \o hi
                     \o replace(SubSeq(text, i + Len(en), Len(text)), en, hi)

\* the loop of to_hindi from the i-th entry of the table on
RECURSIVE to_hindi_from(_, _)
to_hindi_from(text, i) ==
    IF i > Len(translations) THEN text
    ELSE to_hindi_from(replace(text, translations[i][1], translations[i][2]),
                       i + 1)

to_hindi(text) == to_hindi_from(text, 1)

\* the f-string of create_sms_message before it is cut
sms_text(alert_json) ==
    to_hindi(chars("Alert")) \o chars(": ")
        \o to_hindi(alert_json.alert.type) \o chars(", ")
        \o to_hindi(chars("Crop")) \o chars(": ")
        \o to_hindi(alert_json.crop.name) \o chars(", ")
        \o to_hindi(chars("Stage")) \o chars(": ")
        \o to_hindi(alert_json.crop.stage) \o chars(", ")
        \o to_hindi(chars("Urgency")) \o chars(": ")
        \o to_hindi(alert_json.alert.urgency) \o chars(". ")
        \o to_hindi(alert_json.alert.message)

create_sms_message_uncut(alert_json) ==
    sms_text(alert_json)

\* message[:160]
create_sms_message(alert_json) ==
    Prefix(sms_text(alert_json), 160)

\* the fixed texts of the f-strings
whatsapp_location_label ==
        <<"U+1F6A8", " ", "*", "W", "e", "a", "t", "h", "e", "r", " ", "A",
          "l", "e", "r", "t", "*", " ", "U+1F6A8", "\n", "\n", "U+1F4CD",
          " ", "*", "L", "o", "c", "a", "t", "i", "o", "n", ":", "*", " ">>

whatsapp_crop_label ==
        <<"\n", "U+1F33E", " ", "*", "C", "r", "o", "p", ":", "*", " ">>

whatsapp_urgency_label ==
        <<")", "\n", "U+26A0", "U+FE0F", " ", "*", "U", "r", "g", "e", "n",
          "c", "y", ":", "*", " ">>

whatsapp_details_label ==
        <<"\n", "\n", "U+1F4DD", " ", "*", "D", "e", "t", "a", "i", "l", "s",
          ":", "*", " ">>

whatsapp_actions_label ==
        <<"\n", "\n", "U+2705", " ", "*", "R", "e", "c", "o", "m", "m", "e",
          "n", "d", "e", "d", " ", "A", "c", "t", "i", "o", "n", "s", ":",
          "*", "\n">>

ussd_menu_head ==
        <<"M", "a", "u", "s", "a", "m", " ", "k", "i", " ", "j", "a", "n",
          "k", "a", "r", "i", ":", "\n", "1", ".", " ">>

ussd_menu_tail ==
        <<" ", "k", "i", " ", "c", "h", "e", "t", "a", "v", "a", "n", "i",
          "\n", "2", ".", " ", "S", "a", "l", "a", "h", "\n", "3", ".", " ",
          "E", "x", "i", "t">>

ussd_back ==
        <<"\n", "0", ".", " ", "B", "a", "c", "k">>

ussd_advice_head ==
        <<"S", "a", "l", "a", "h", ":", "\n">>

ussd_invalid_choice ==
        <<"I", "n", "v", "a", "l", "i", "d", " ", "c", "h", "o", "i", "c",
          "e", ".", " ", "P", "l", "e", "a", "s", "e", " ", "t", "r", "y",
          " ", "a", "g", "a", "i", "n", ".">>

ivr_greeting ==
        <<"N", "a", "m", "a", "s", "t", "e", ".", " ", "M", "a", "u", "s",
          "a", "m", " ", "k", "i", " ", "c", "h", "e", "t", "a", "v", "a",
          "n", "i", " ">>

ivr_prompt ==
        <<"S", "a", "l", "a", "h", " ", "k", "e", " ", "l", "i", "y", "e",
          ",", " ", "e", "k", " ", "d", "a", "b", "a", "y", "e", ".">>

\* action.replace('_', ' ').capitalize()
action_label(action) ==
    capitalize(replace(action, chars("_"), chars(" ")))

\* the loop that appends one "- ...\n" line per action item
RECURSIVE whatsapp_action_lines(_)
whatsapp_action_lines(action_items) ==
    IF action_items = <<>> THEN <<>>
    ELSE chars("- ") \o action_label(Head(action_items)) \o <<"\n">>
             \o whatsapp_action_lines(Tail(action_items))

whatsapp_text(alert_json) ==
    whatsapp_location_label
        \o alert_json.location.village \o chars(", ")
        \o alert_json.location.district
        \o whatsapp_crop_label
        \o capitalize(alert_json.crop.name) \o chars(" (")
        \o alert_json.crop.stage
        \o whatsapp_urgency_label
        \o upper(alert_json.alert.urgency)
        \o whatsapp_details_label
        \o alert_json.alert.message
        \o whatsapp_actions_label
        \o whatsapp_action_lines(alert_json.alert.action_items)

create_whatsapp_message_shared_payload(alert_json) ==
    [text |-> whatsapp_text(alert_json),
     buttons |->
        <<[title |-> chars("Acknowledge"),
           payload |-> chars("ack_") \o alert_json.alert_id],
          [title |-> chars("More Info"),
           payload |-> chars("ack_") \o alert_json.alert_id]>>]

create_whatsapp_message(alert_json) ==
    [text |-> whatsapp_text(alert_json),
     buttons |->
        <<[title |-> chars("Acknowledge"),
           payload |-> chars("ack_") \o alert_json.alert_id],
          [title |-> chars("More Info"),
           payload |-> chars("info_") \o alert_json.alert_id]>>]

create_ussd_menu(alert_json) ==
    ussd_menu_head \o capitalize(alert_json.crop.name) \o ussd_menu_tail

\* "\n".join of the "- ..." lines of the action items
RECURSIVE ussd_action_lines(_)
ussd_action_lines(action_items) ==
    IF action_items = <<>> THEN <<>>
    ELSE chars("- ") \o action_label(Head(action_items))
             \o (IF Tail(action_items) = <<>> THEN <<>> ELSE <<"\n">>)
             \o ussd_action_lines(Tail(action_items))

get_ussd_submenu(alert_json, choice) ==
    IF choice = 1
    THEN chars("Chetavani: ") \o alert_json.alert.message \o ussd_back
    ELSE IF choice = 2
    THEN ussd_advice_head
             \o ussd_action_lines(alert_json.alert.action_items) \o ussd_back
    ELSE ussd_invalid_choice

create_ivr_script(alert_json) ==
    <<[text |-> ivr_greeting \o alert_json.location.district
                    \o chars(" ke liye."),
       delay_after |-> 1],
      [text |-> chars("Fasal: ") \o alert_json.crop.name \o chars("."),
       delay_after |-> 1],
      [text |-> chars("Chetavani: ") \o alert_json.alert.message,
       delay_after |-> 2],
      [text |-> ivr_prompt, delay_after |-> 0]>>

----------------------------------------------------------------------------
(* The agents loop of run_workflow and run_workflow_clean *)

\* the agents list: the key of agent_responses (without its emoji) and the
\* formatter, in the order of the list
agents ==
    <<<<"WhatsApp Agent", "create_whatsapp_message">>,
      <<"SMS Agent", "create_sms_message">>,
      <<"USSD Agent", "create_ussd_menu">>,
      <<"IVR Agent", "create_ivr_script">>,
      <<"Telegram Agent", "create_telegram_message">>>>

\* what a call of agent_func ended with
Returned(value) == [raised |-> FALSE, value |-> value]

Raised(message) == [raised |-> TRUE, error |-> message]

\* f"Error: {str(e)}"
error_entry(e) == chars("Error: ") \o e

agent_responses_of_stops_at_error(outcomes) ==
    LET failing == {i \in DOMAIN outcomes : outcomes[i].raised}
        n == IF failing = {} THEN Len(outcomes)
             ELSE CHOOSE i \in failing : \A j \in failing : i <= j
    IN  [i \in 1..n |->
            <<agents[i][1],
              IF outcomes[i].raised THEN error_entry(outcomes[i].error)
              ELSE outcomes[i].value>>]

\* the loop over agents: agent_responses after the last iteration, as the
\* sequence of its items in insertion order
agent_responses_of(outcomes) ==
    [i \in DOMAIN outcomes |->
        <<agents[i][1],
          IF outcomes[i].raised THEN error_entry(outcomes[i].error)
          ELSE outcomes[i].value>>]

\* the calls of the loop as entries of the trace
agent_calls_of(outcomes) ==
    [i \in DOMAIN outcomes |->
        <<agents[i][2], IF outcomes[i].raised THEN "raised" ELSE "ok">>]

\* alert_json[path[1]][path[2]] can be read
has_key(alert_json, path) ==
    /\ path[1] \in DOMAIN alert_json
    /\ Len(path) = 2 => path[2] \in DOMAIN alert_json[path[1]]

\* the first of the reads that finds no key, or <<>>
first_missing(alert_json, reads) ==
    LET missing == {i \in DOMAIN reads : ~has_key(alert_json, reads[i])}
    IN  IF missing = {} THEN <<>>
        ELSE reads[CHOOSE i \in missing : \A j \in missing : i <= j]

\* str(KeyError(key)) of the subscript alert_json[path[1]][path[2]] that
\* fails: the key is path[1] when alert_json has no such member, and the
\* last key of the path when only the inner subscript fails
key_error(alert_json, path) ==
    LET key == IF path[1] \in DOMAIN alert_json THEN path[Len(path)]
               ELSE path[1]
    IN  chars("'") \o chars(key) \o chars("'")

\* the subscripts each formatter evaluates, in the order it evaluates them
whatsapp_reads ==
    <<<<"location", "village">>, <<"location", "district">>,
      <<"crop", "name">>, <<"crop", "stage">>, <<"alert", "urgency">>,
      <<"alert", "message">>, <<"alert", "action_items">>, <<"alert_id">>>>

sms_reads ==
    <<<<"alert", "type">>, <<"crop", "name">>, <<"crop", "stage">>,
      <<"alert", "urgency">>, <<"alert", "message">>>>

ussd_reads == <<<<"crop", "name">>>>

ivr_reads ==
    <<<<"location", "district">>, <<"crop", "name">>, <<"alert", "message">>>>

\* response = agent_func(sample_alert) for the four formatters of src/, on
\* a record that may lack keys
whatsapp_outcome(a) ==
    IF first_missing(a, whatsapp_reads) # <<>>
    THEN Raised(key_error(a, first_missing(a, whatsapp_reads)))
    ELSE Returned(create_whatsapp_message(a))

sms_outcome(a) ==
    IF first_missing(a, sms_reads) # <<>>
    THEN Raised(key_error(a, first_missing(a, sms_reads)))
    ELSE Returned(create_sms_message(a))

ussd_outcome(a) ==
    IF first_missing(a, ussd_reads) # <<>>
    THEN Raised(key_error(a, first_missing(a, ussd_reads)))
    ELSE Returned(create_ussd_menu(a))

ivr_outcome(a) ==
    IF first_missing(a, ivr_reads) # <<>>
    THEN Raised(key_error(a, first_missing(a, ivr_reads)))
    ELSE Returned(create_ivr_script(a))

agent_outcomes(a, telegram) ==
    <<whatsapp_outcome(a), sms_outcome(a), ussd_outcome(a), ivr_outcome(a),
      telegram>>

\* the subscripts of generate_csv_export
csv_reads ==
    <<<<"alert_id">>, <<"location", "village">>, <<"location", "district">>,
      <<"location", "state">>, <<"location", "coordinates">>,
      <<"crop", "name">>, <<"crop", "stage">>, <<"weather", "temperature">>,
      <<"weather", "expected_rainfall">>, <<"alert", "type">>,
      <<"alert", "urgency">>, <<"alert", "message">>>>

\* generate_csv_export: the CSV text, kept as a token, or the text of its
\* except branch
generate_csv_export(alert_data, agent_responses) ==
    IF first_missing(alert_data, csv_reads) # <<>>
    THEN chars("Error generating CSV: ")
             \o key_error(alert_data, first_missing(alert_data, csv_reads))
    ELSE <<"csv_export">>

\* the subscripts of the "Weather data retrieved" lines and of the summary
\* of run_workflow, which are outside the try of the loop
run_workflow_reads ==
    <<<<"location", "village">>, <<"location", "district">>,
      <<"weather", "temperature">>, <<"weather", "expected_rainfall">>,
      <<"weather", "wind_speed">>, <<"crop", "name">>, <<"crop", "stage">>,
      <<"alert", "type">>, <<"alert", "urgency">>,
      <<"data_source">>, <<"alert", "ai_generated">>>>

\* the success response of both workflows, without its "message", the log
\* of the run joined into one text
workflow_success(request, sample_alert, agent_responses) ==
    [status |-> "success",
     csv |-> generate_csv_export(sample_alert, agent_responses),
     raw_data |-> [state |-> request.state,
                   district |-> request.district,
                   alert_data |-> sample_alert,
                   agent_responses |-> agent_responses]]

\* the response of the outer except branch, without its "message"
workflow_error(e) == [status |-> "error", csv |-> "", error |-> e]

\* run_workflow once generate_dynamic_alert has returned sample_alert
run_workflow_after_alert(request, sample_alert, telegram) ==
    IF first_missing(sample_alert, run_workflow_reads) # <<>>
    THEN workflow_error(
             key_error(sample_alert,
                       first_missing(sample_alert, run_workflow_reads)))
    ELSE workflow_success(request, sample_alert,
             agent_responses_of(agent_outcomes(sample_alert, telegram)))

\* run_workflow_clean once generate_dynamic_alert has returned sample_alert
run_workflow_clean_after_alert(request, sample_alert, telegram) ==
    workflow_success(request, sample_alert,
        agent_responses_of(agent_outcomes(sample_alert, telegram)))

\* telegram_agent.create_telegram_message: it returns a message or raises
TelegramOutcomes ==
    {Returned(<<"telegram_message">>),
     Raised(chars("telegram unavailable"))}

----------------------------------------------------------------------------
(* Tool dispatch: utils/weather_utils.py, mcp_endpoint and mcp_rpc_handler.
   The members of a JSON-RPC request are JSON values: a string is Str(text),
   null is PyNone, a number is JNum(text) and an object is JDict(members),
   of which the text is not needed here.  Python's None is PyNone too.  The
   values of a tool's own arguments are not looked at.  An exception is the
   tuple of its class and its text *)

JDict(d) == [t |-> "dict", d |-> d]

JNum(text) == [t |-> "num", s |-> text]

\* dict.get(key) as an optional value
GetOpt(d, k) == IF k \in DOMAIN d THEN <<d[k]>> ELSE NoneVal

\* dict.get(key) of a JSON object: None for a key that is not there
json_get(d, k) == IF k \in DOMAIN d THEN d[k] ELSE PyNone

TOOL_CONFIG ==
    [tool \in {"get_weather_forecast", "get_current_weather",
               "get_historical_weather", "analyze_weather_trends"}
        |-> [module |-> "open_meteo"]]
    @@ [tool \in {"get_tomorrow_weather", "get_weather_alerts"}
        |-> [module |-> "tomorrow_io"]]
    @@ ("get_google_weather_current_conditions"
            :> [module |-> "google_weather"])
    @@ ("get_openweathermap_weather" :> [module |-> "openweathermap"])
    @@ ("get_accuweather_current_conditions" :> [module |-> "accuweather"])
    @@ ("predict_weather_alert" :> [module |-> "openai_llm"])
    @@ [tool \in {"list_villages", "reverse_geocode",
                  "get_administrative_bounds"}
        |-> [module |-> "geographic_tools"]]
    @@ [tool \in {"get_crop_calendar", "get_prominent_crops",
                  "estimate_crop_stage"}
        |-> [module |-> "crop_calendar_tools"]]
    @@ [tool \in {"generate_weather_alert", "prioritize_alerts"}
        |-> [module |-> "alert_generation_tools"]]

\* TOOL_CONFIG.get(tool_name)
get_tool_config(tool_name) == GetOpt(TOOL_CONFIG, tool_name)

\* the keys of module_map
module_map ==
    {"open_meteo", "tomorrow_io", "google_weather", "openweathermap",
     "accuweather", "openai_llm", "geographic_tools", "crop_calendar_tools",
     "alert_generation_tools"}

\* the modules whose tools get params["api_key"]
api_key_modules ==
    {"tomorrow_io", "google_weather", "openweathermap", "accuweather",
     "openai_llm", "alert_generation_tools"}

\* a tool's parameters and the ones without a default
Signature(params, required) == [params |-> params, required |-> required]

\* the def lines of the tools under src/tools
tool_signatures ==
    ("get_weather_forecast" :>
        Signature({"latitude", "longitude", "days", "include_hourly"},
                  {"latitude", "longitude"}))
    @@ ("get_current_weather" :>
        Signature({"latitude", "longitude"}, {"latitude", "longitude"}))
    @@ ("get_historical_weather" :>
        Signature({"latitude", "longitude", "start_date", "end_date"},
                  {"latitude", "longitude", "start_date", "end_date"}))
    @@ ("analyze_weather_trends" :>
        Signature({"latitude", "longitude", "period"},
                  {"latitude", "longitude", "period"}))
    @@ ("get_tomorrow_weather" :>
        Signature({"location", "fields", "timesteps", "units"},
                  {"location"}))
    @@ ("get_weather_alerts" :> Signature({"location"}, {"location"}))
    @@ ("get_google_weather_current_conditions" :>
        Signature({"latitude", "longitude", "api_key"},
                  {"latitude", "longitude", "api_key"}))
    @@ ("get_openweathermap_weather" :>
        Signature({"lat", "lon", "api_key"}, {"lat", "lon", "api_key"}))
    @@ ("get_accuweather_current_conditions" :>
        Signature({"location_key", "api_key"}, {"location_key", "api_key"}))
    @@ ("predict_weather_alert" :>
        Signature({"latitude", "longitude", "api_key"},
                  {"latitude", "longitude", "api_key"}))
    @@ ("get_crop_calendar" :>
        Signature({"region", "crop_type"}, {"region"}))
    @@ ("get_prominent_crops" :>
        Signature({"region", "season"}, {"region", "season"}))
    @@ ("estimate_crop_stage" :>
        Signature({"crop", "plant_date", "current_date"},
                  {"crop", "plant_date", "current_date"}))
    @@ ("generate_weather_alert" :>
        Signature({"crop", "weather_data", "growth_stage", "api_key",
                   "latitude", "longitude"},
                  {"crop", "weather_data", "growth_stage", "api_key",
                   "latitude", "longitude"}))
    @@ ("prioritize_alerts" :>
        Signature({"alerts_list", "urgency_factors"},
                  {"alerts_list", "urgency_factors"}))

\* the tools of tools/geographic_tools.py, as server.py calls them
geographic_signatures ==
    ("list_villages" :> Signature({"state", "district"}, {"state"}))
    @@ ("reverse_geocode" :>
        Signature({"location_name"}, {"location_name"}))
    @@ ("get_administrative_bounds" :>
        Signature({"village_id"}, {"village_id"}))

signature_of(tool) == (tool_signatures @@ geographic_signatures)[tool]

\* params = request.parameters.copy() and the "Add API key if needed" step
injected_params(tool_config, parameters) ==
    IF tool_config.module \in api_key_modules
    THEN ("api_key" :> "configured_key") @@ parameters
    ELSE parameters

\* getattr(module, request.tool)(**params): the binding of the keyword
\* arguments, which raises TypeError before the coroutine exists, or NoneVal
bind_arguments(tool, params) ==
    LET sig == signature_of(tool)
        unexpected == DOMAIN params \ sig.params
        absent == sig.required \ DOMAIN params
    IN  IF unexpected # {}
        THEN <<Raised(<<"TypeError", "unexpected keyword argument",
                        unexpected>>)>>
        ELSE IF absent # {}
        THEN <<Raised(<<"TypeError", "missing required arguments",
                        absent>>)>>
        ELSE NoneVal

\* await getattr(module, request.tool)(**params): the binding, then the
\* body of the tool, which ends as tool_outcome
call_tool(tool, params, tool_outcome) ==
    IF bind_arguments(tool, params) # NoneVal
    THEN bind_arguments(tool, params)[1]
    ELSE tool_outcome

\* raise HTTPException(status_code, detail)
HTTPException(status_code, detail) ==
    Raised(<<"HTTPException", status_code, detail>>)

\* mcp_endpoint(request), for request.tool and request.parameters
mcp_endpoint(tool, parameters, tool_outcome) ==
    LET tool_config == get_tool_config(tool)
    IN  IF tool_config = NoneVal
        THEN HTTPException(404, <<"Tool not found">>)
        ELSE IF tool_config[1].module \notin module_map
        THEN HTTPException(500, <<"HTTPException", 500,
                                  <<"Invalid tool module">>>>)
        ELSE LET r == call_tool(tool,
                                injected_params(tool_config[1], parameters),
                                tool_outcome)
             IN  IF r.raised THEN HTTPException(500, r.error) ELSE r

\* mcp_endpoint gets as far as awaiting the tool: the tool is configured
\* and its arguments bind
mcp_endpoint_awaits(tool, parameters) ==
    LET tool_config == get_tool_config(tool)
    IN  /\ tool_config # NoneVal
        /\ tool_config[1].module \in module_map
        /\ bind_arguments(tool, injected_params(tool_config[1], parameters))
               = NoneVal

\* MCPRequest(tool=tool_name, parameters=arguments): tool must be a str and
\* parameters a dict
MCPRequest_raises(tool_name, arguments) ==
    tool_name.t # "str" \/ arguments.t # "dict"

\* WorkflowRequest(state=state, district=district): both must be a str,
\* which None is not
WorkflowRequest_raises(state, district) ==
    state.t # "str" \/ district.t # "str"

jsonrpc_result(tool_result, req_id) ==
    [jsonrpc |-> "2.0", result |-> tool_result, id |-> req_id]

jsonrpc_error(code, message, req_id) ==
    [jsonrpc |-> "2.0", error |-> [code |-> code, message |-> message],
     id |-> req_id]

\* mcp_rpc_handler(request): the response it returns, or the exception
\* that leaves it
mcp_rpc_handler(request, workflow_result, tool_outcome) ==
    LET method == json_get(request, "method")
        params == Get(request, "params", JDict(EmptyDict))
        req_id == json_get(request, "id")
    IN  IF params.t # "dict"
        THEN Raised(<<"AttributeError", "params has no attribute get">>)
        ELSE
        LET tool_name == json_get(params.d, "tool_name")
            arguments == Get(params.d, "arguments", JDict(EmptyDict))
        IN  IF method = Str("call_tool") /\ tool_name = Str("run_workflow")
            THEN IF arguments.t # "dict"
                 THEN Raised(<<"AttributeError",
                               "arguments has no attribute get">>)
                 ELSE IF WorkflowRequest_raises(
                             json_get(arguments.d, "state"),
                             json_get(arguments.d, "district"))
                 THEN Raised(<<"ValidationError", "WorkflowRequest">>)
                 ELSE Returned(jsonrpc_result(workflow_result, req_id))
            ELSE IF method = Str("call_tool")
            THEN IF MCPRequest_raises(tool_name, arguments)
                 THEN Returned(jsonrpc_error(-32000,
                                  <<"ValidationError", "MCPRequest">>,
                                  req_id))
                 ELSE LET r == mcp_endpoint(tool_name.s, arguments.d,
                                            tool_outcome)
                      IN  IF r.raised
                          THEN Returned(jsonrpc_error(-32000, r.error,
                                                      req_id))
                          ELSE Returned(jsonrpc_result(r.value, req_id))
            ELSE Returned(jsonrpc_error(-32601, <<"Unknown method">>,
                                        req_id))

\* what mcp_rpc_handler awaits before it answers: run_workflow, the tool
\* that mcp_endpoint dispatches to, or nothing
mcp_rpc_handler_awaits(request) ==
    LET method == json_get(request, "method")
        params == Get(request, "params", JDict(EmptyDict))
    IN  IF params.t # "dict" THEN "nothing"
        ELSE
        LET tool_name == json_get(params.d, "tool_name")
            arguments == Get(params.d, "arguments", JDict(EmptyDict))
        IN  IF method = Str("call_tool") /\ tool_name = Str("run_workflow")
            THEN IF arguments.t = "dict"
                    /\ ~WorkflowRequest_raises(
                            json_get(arguments.d, "state"),
                            json_get(arguments.d, "district"))
                 THEN "run_workflow"
                 ELSE "nothing"
            ELSE IF method = Str("call_tool")
                    /\ ~MCPRequest_raises(tool_name, arguments)
                    /\ mcp_endpoint_awaits(tool_name.s, arguments.d)
            THEN "tool"
            ELSE "nothing"

----------------
(* tools/alert_generation_tools.py: prioritize_alerts *)

\* the loop that sets alert["urgency"] on every alert of the list: the dicts
\* are the caller's, an urgency they already carry is overwritten
with_urgency(alerts_list, urgency_factors) ==
    [i \in DOMAIN alerts_list |->
        ("urgency" :> Get(urgency_factors, alerts_list[i].crop, 0))
            @@ alerts_list[i]]

\* the place of one more alert in a list sorted by decreasing key: after
\* every alert whose key is at least its own
RECURSIVE insert_by_urgency(_, _)
insert_by_urgency(sorted, alert) ==
    IF sorted = <<>> THEN <<alert>>
    ELSE IF Head(sorted).urgency >= alert.urgency
         THEN <<Head(sorted)>> \o insert_by_urgency(Tail(sorted), alert)
         ELSE <<alert>> \o sorted

\* sorted(alerts, key=lambda x: x["urgency"], reverse=True): a stable sort
RECURSIVE sorted_by_urgency(_)
sorted_by_urgency(alerts) ==
    IF alerts = <<>> THEN <<>>
    ELSE insert_by_urgency(
             sorted_by_urgency(SubSeq(alerts, 1, Len(alerts) - 1)),
             alerts[Len(alerts)])

prioritize_alerts_without_default(alerts_list, urgency_factors) ==
    sorted_by_urgency(
        with_urgency(SelectSeq(alerts_list,
                               LAMBDA a : a.crop \in DOMAIN urgency_factors),
                     urgency_factors))

prioritize_alerts(alerts_list, urgency_factors) ==
    sorted_by_urgency(with_urgency(alerts_list, urgency_factors))

----------------------------------------------------------------------------
(* Answers of the external collaborators *)

VillagePool == <<"Kumhrar", "Danapur", "Phulwari", "Bihta">>

\* geographic_tools.list_villages: a dict, or an exception ("raise")
VillageResponses ==
    {("error" :> "District not found"), EmptyDict}
        \cup {("villages" :> Prefix(VillagePool, n)) : n \in 0..MaxVillages}

\* geographic_tools.reverse_geocode: a dict, or an exception
\* (coordinates in 1/10000 degree)
GeocodeResponses(name) ==
    {("error" :> "Location not found"), EmptyDict,
     ("latitude" :> IF name \in Range(VillagePool) THEN 256100 ELSE 255900)
        @@ ("longitude" :> 851400)}

PatnaFallback == <<255941, 851376>>

CurrentOf(t, w) == ("current_weather" :> (("temperature" :> t) @@ ("windspeed" :> w)))

\* open_meteo.get_current_weather: the JSON of a 200 answer
CurrentWeatherResponses ==
    {EmptyDict,
     CurrentOf(20, 20),
     CurrentOf(100, 140),
     CurrentOf(144, 140)}

DailyOf(p) == ("daily" :> ("precipitation_sum" :> p))

\* open_meteo.get_weather_forecast: the JSON of a 200 answer
ForecastResponses ==
    {EmptyDict,
     DailyOf(<<0, 3, 0, 60>>),
     DailyOf(<<40, 3, 0>>),
     DailyOf(<<8, 3, 0>>),
     DailyOf(<<40, 60, 4>>)}

\* json.loads(response) of the LLM, or None when the content is empty
LlmAnswers ==
    {PyNone,
     [t |-> "str", s |-> "storm"],
     [t |-> "dict", s |-> "{}", d |-> EmptyDict],
     [t |-> "dict",
      s |-> "{'alert': 'Heavy rain', 'impact': 'Lodging risk', "
                \o "'recommendations': 'Drain fields'}",
      d |-> ("alert" :> Str("Heavy rain")) @@ ("impact" :> Str("Lodging risk"))
            @@ ("recommendations" :> Str("Drain fields"))],
     [t |-> "dict", s |-> "{'alert': 'Dry spell', 'impact': 'NONE'}",
      d |-> ("alert" :> Str("Dry spell")) @@ ("impact" :> Str("NONE"))],
     [t |-> "dict", s |-> "{'alert': 'Dry spell', 'impact': ['wilting']}",
      d |-> ("alert" :> Str("Dry spell"))
            @@ ("impact" :> [t |-> "list", s |-> "['wilting']"])],
     [t |-> "dict", s |-> "{'alert': 'Dry spell', 'impact': []}",
      d |-> ("alert" :> Str("Dry spell"))
            @@ ("impact" :> [t |-> "list", s |-> "[]"])],
     [t |-> "dict", s |-> "{'alert': {'level': 1}}",
      d |-> ("alert" :> [t |-> "dict", s |-> "{'level': 1}",
                         d |-> ("level" :> [t |-> "num", s |-> "1"])])]}

PipelineStates == {"bihar", "punjab"}

PipelineDistricts == {"Patna", "nalanda"}

\* what datetime.now() shows when a request is received: the last
\* microsecond of March 2025 (rabi) or an instant of July 2025 (kharif)
PipelineClock ==
    {<<2025, 3, 31, 23, 59, 59, 999999>>, <<2025, 7, 1, 0, 0, 7, 0>>}

\* the requests of the pipeline with the instant each is received at: every
\* state and district in July, Bihar and Patna also at the end of March
PipelineArrivals ==
    {<<st, d, <<2025, 7, 1, 0, 0, 7, 0>>>> :
        st \in PipelineStates, d \in PipelineDistricts}
        \cup {<<"bihar", "Patna", now>> : now \in PipelineClock}

\* the month ends the clock passes in the model: the last instant it shows
\* in one month and the first it shows in the next
ClockRollovers ==
    {<<<<2025, 3, 31, 23, 59, 59, 999999>>, <<2025, 4, 1, 0, 0, 0, 120>>>>,
     <<<<2025, 9, 30, 23, 59, 59, 999999>>, <<2025, 10, 1, 0, 0, 0, 120>>>>}

\* what a reading of datetime.now() can return when the clock showed t at
\* the reading before: t again, or the instant after the month end
Later(t) == {t} \cup {p[2] : p \in {q \in ClockRollovers : q[1] = t}}

----------------------------------------------------------------------------
(* The request pipeline *)

NoEstimate == [crop |-> "", plant_date |-> <<>>, current_date |-> <<>>]

\* before any reading of the clock
NoClock == <<>>

NoLocation == [coords |-> <<>>, source |-> <<>>]

NoClassification ==
    [type |-> "", urgency |-> "", message |-> Message("", <<>>, <<>>),
     action_items |-> <<>>]

Init ==
    /\ pc = "idle"
    /\ req = [state |-> "", district |-> ""]
    /\ openai_key \in BOOLEAN
    /\ month = 0
    /\ season = ""
    /\ available_villages = <<>>
    /\ selected_village = ""
    /\ location = NoLocation
    /\ crop = ""
    /\ crop_stage = ""
    /\ cw = EmptyDict
    /\ fc = EmptyDict
    /\ cls = NoClassification
    /\ ai = NoneVal
    /\ ai_fault = ""
    /\ result = NoneVal
    /\ error = ""
    /\ resp = NoneVal
    /\ calls = <<>>
    /\ weighted = <<>>
    /\ stage_index = NoneVal
    /\ district_crops = DISTRICT_CROPS
    /\ crop_calendar = CROP_CALENDAR
    /\ est_in = NoEstimate
    /\ est_out = EmptyDict
    /\ call_args = NoneVal
    /\ call_ret = NoneVal
    /\ issued_ids = <<>>
    /\ clock = NoClock
    /\ readings = <<>>
    /\ tasks = <<>>

\* generate_dynamic_alert raises: the outer except wraps the cause
Raise(cause) ==
    /\ pc' = "raised"
    /\ error' = cause
    /\ result' = NoneVal

\* run_workflow is entered with a request; generate_dynamic_alert starts
ReceiveRequest ==
    /\ pc = "idle"
    /\ \E arrival \in PipelineArrivals :
          /\ req' = [state |-> arrival[1], district |-> arrival[2]]
          /\ clock' = arrival[3]
    /\ UNCHANGED tasks
    /\ readings' = <<>>
    /\ pc' = "list_villages"
    /\ UNCHANGED <<call_args, call_ret, issued_ids, month>>
    /\ UNCHANGED <<weighted, stage_index, district_crops, crop_calendar,
                   est_in, est_out>>
    /\ UNCHANGED <<openai_key, season, available_villages, selected_village,
                   location, crop, crop_stage, cw, fc, cls, ai, ai_fault,
                   result, error, resp, calls>>

\* an external call and how it ended are appended to the trace
Called(name, outcome) == calls' = Append(calls, <<name, outcome>>)

village_lookup_fails_district_as_village(cause) ==
    /\ available_villages' = <<req.district>>
    /\ selected_village' = req.district
    /\ pc' = "geocode_village"
    /\ UNCHANGED <<error, result>>

\* the two raise statements of step 1
village_lookup_fails(cause) ==
    /\ Raise(cause)
    /\ UNCHANGED <<available_villages, selected_village>>

\* Step 1 and 2: list_villages, the two checks, random.choice
ListVillages ==
    /\ pc = "list_villages"
    /\ \/ /\ Called("list_villages", "raised")
          /\ Raise("list_villages failed")
          /\ UNCHANGED <<available_villages, selected_village>>
       \/ \E villages_data \in VillageResponses :
            IF "error" \in DOMAIN villages_data THEN
                /\ Called("list_villages", "error")
                /\ village_lookup_fails("District not found")
            ELSE IF Get(villages_data, "villages", <<>>) = <<>> THEN
                /\ Called("list_villages", "empty")
                /\ village_lookup_fails("No villages found")
            ELSE
                /\ Called("list_villages", "ok")
                /\ available_villages' = villages_data["villages"]
                /\ \E i \in DOMAIN villages_data["villages"] :
                      selected_village' = villages_data["villages"][i]
                /\ pc' = "geocode_village"
                /\ UNCHANGED <<error, result>>
    /\ UNCHANGED <<call_args, call_ret, issued_ids, clock, readings, tasks>>
    /\ UNCHANGED <<weighted, stage_index, district_crops, crop_calendar,
                   est_in, est_out>>
    /\ UNCHANGED <<req, openai_key, month, season, location, crop,
                   crop_stage, cw, fc, cls, ai, ai_fault, resp>>

\* "error" not in r and "latitude" in r
HasCoordinates(r) == "error" \notin DOMAIN r /\ "latitude" \in DOMAIN r

\* Step 4, which runs as soon as get_location_coordinates has returned.
\* select_regional_crop reads the clock for current_month unless the state
\* is not bihar, and the caller reads it again for estimate_crop_stage
SelectCropAndStage ==
    \E now_select \in IF lower(req.state) = "bihar" THEN Later(clock)
                      ELSE {clock} :
      \E now_stage \in Later(now_select) :
        /\ month' = IF lower(req.state) = "bihar" THEN now_select[2] ELSE 0
        /\ season' = IF lower(req.state) = "bihar"
                      THEN get_current_season(now_select[2]) ELSE ""
        /\ crop' \in select_regional_crop(req.district, req.state,
                                          now_select[2])
        /\ crop_stage' = estimate_crop_stage(crop', now_stage[2])
        /\ stage_index' = stage_index_of(crop', now_stage[2])
        /\ weighted' = weighted_candidates(req.district, req.state,
                                           now_select[2])
        /\ district_crops' = district_crops_after_select(
                                 req.district, req.state, now_select[2])
        /\ crop_calendar' = crop_calendar_after_estimate(crop', now_stage[2])
        /\ clock' = now_stage
        /\ UNCHANGED tasks
        /\ readings' = readings
                          \o (IF lower(req.state) = "bihar"
                              THEN <<now_select>> ELSE <<>>)
                          \o <<now_stage>>

\* get_location_coordinates: the village attempt
GeocodeVillage ==
    /\ pc = "geocode_village"
    /\ \/ /\ Called("reverse_geocode_village", "raised")
          /\ pc' = "geocode_district"
          /\ UNCHANGED <<location, season, crop, crop_stage, weighted,
                             stage_index, district_crops, crop_calendar,
                             month, clock, readings, tasks>>
       \/ \E r \in GeocodeResponses(selected_village) :
            IF HasCoordinates(r) THEN
                /\ Called("reverse_geocode_village", "ok")
                /\ location' = [coords |-> <<r["latitude"], r["longitude"]>>,
                                source |-> <<"village", selected_village>>]
                /\ SelectCropAndStage
                /\ pc' = "current_weather"
            ELSE
                /\ Called("reverse_geocode_village", "no_coordinates")
                /\ pc' = "geocode_district"
                /\ UNCHANGED <<location, season, crop, crop_stage, weighted,
                             stage_index, district_crops, crop_calendar,
                             month, clock, readings, tasks>>
    /\ UNCHANGED <<call_args, call_ret, issued_ids>>
    /\ UNCHANGED <<est_in, est_out>>
    /\ UNCHANGED <<req, openai_key, available_villages,
                   selected_village, cw, fc, cls, ai, ai_fault, result,
                   error, resp>>

location_fallback_none(found) == NoLocation

\* the "Final fallback" of get_location_coordinates
location_fallback(found) ==
    IF found.coords = <<>>
    THEN [coords |-> PatnaFallback, source |-> <<"fallback_patna">>]
    ELSE found

\* get_location_coordinates: the district attempt and the final fallback
GeocodeDistrict ==
    /\ pc = "geocode_district"
    /\ \/ /\ Called("reverse_geocode_district", "raised")
          /\ location' = location_fallback(NoLocation)
       \/ \E r \in GeocodeResponses(req.district) :
            IF HasCoordinates(r) THEN
                /\ Called("reverse_geocode_district", "ok")
                /\ location' = location_fallback(
                      [coords |-> <<r["latitude"], r["longitude"]>>,
                       source |-> <<"district", req.district>>])
            ELSE
                /\ Called("reverse_geocode_district", "no_coordinates")
                /\ location' = location_fallback(NoLocation)
    /\ SelectCropAndStage
    /\ pc' = "current_weather"
    /\ UNCHANGED <<call_args, call_ret, issued_ids>>
    /\ UNCHANGED <<est_in, est_out>>
    /\ UNCHANGED <<req, openai_key, available_villages,
                   selected_village, cw, fc, cls, ai, ai_fault, result,
                   error, resp>>

\* generate_ai_alert returns ai_analysis: step 8 and the final response,
\* which reads the clock four times
Assemble(ai_analysis, current_weather_data, forecast_data, classification) ==
    \E now_id \in Later(clock) :
      \E now_timestamp \in Later(now_id) :
        \E now_season \in Later(now_timestamp) :
          \E now_valid \in Later(now_season) :
            LET nows == <<now_id, now_timestamp, now_season, now_valid>>
            IN  /\ ai' = ai_analysis
                /\ result' = <<build_result(
                                  req.district, req.state, selected_village,
                                  available_villages, location, crop,
                                  crop_stage, current_weather_data,
                                  forecast_data, classification, ai_analysis,
                                  nows)>>
                /\ clock' = now_valid
                /\ UNCHANGED tasks
                /\ readings' = readings \o nows
                /\ pc' = "returned"
                /\ error' = ""

ClassifyAndEnterAi_ai_before_rules(current_weather_data, forecast_data) ==
    LET classification ==
            generate_weather_based_alert(
                ("current_weather" :>
                    Get(current_weather_data, "current_weather", EmptyDict))
                @@ ("daily" :> Get(forecast_data, "daily", EmptyDict)),
                crop, crop_stage, selected_village, req.district)
    IN  /\ cw' = current_weather_data
        /\ fc' = forecast_data
        /\ IF ~openai_key THEN
              /\ cls' = classification
              /\ ai_fault' = "no_api_key"
              /\ Assemble(NoneVal, current_weather_data, forecast_data,
                          classification)
           ELSE
              /\ cls' = cls
              /\ pc' = "ai_current_weather"
              /\ UNCHANGED <<ai, ai_fault, error, result, clock, readings, tasks>>

\* Step 6 and the entry of generate_ai_alert (step 7), on the two answers
\* of the weather provider
ClassifyAndEnterAi(current_weather_data, forecast_data) ==
    LET classification ==
            generate_weather_based_alert(
                ("current_weather" :>
                    Get(current_weather_data, "current_weather", EmptyDict))
                @@ ("daily" :> Get(forecast_data, "daily", EmptyDict)),
                crop, crop_stage, selected_village, req.district)
    IN  /\ cw' = current_weather_data
        /\ fc' = forecast_data
        /\ cls' = classification
        /\ IF ~openai_key THEN
              /\ ai_fault' = "no_api_key"
              /\ Assemble(NoneVal, current_weather_data, forecast_data,
                          classification)
           ELSE
              /\ pc' = "ai_current_weather"
              /\ UNCHANGED <<ai, ai_fault, error, result, clock, readings, tasks>>

weather_fetch_fails_uses_defaults(cause) ==
    ClassifyAndEnterAi(EmptyDict, EmptyDict)

\* the except branch of step 5: log, then raise
weather_fetch_fails(cause) ==
    /\ Raise(cause)
    /\ UNCHANGED <<cw, fc, cls, ai, ai_fault, clock, readings, tasks>>

\* Step 5, first call
FetchCurrentWeather ==
    /\ pc = "current_weather"
    /\ IF location.coords = <<>> THEN
          \* location_coords[0] raises inside the try block
          /\ weather_fetch_fails("Unable to retrieve weather conditions")
          /\ UNCHANGED calls
       ELSE
          \/ /\ Called("get_current_weather", "failed")
             /\ weather_fetch_fails("Unable to retrieve weather conditions")
          \/ /\ Called("get_current_weather", "ok")
             /\ cw' \in CurrentWeatherResponses
             /\ pc' = "forecast"
             /\ UNCHANGED <<fc, cls, ai, ai_fault, error, result, clock,
                            readings, tasks>>
    /\ UNCHANGED <<call_args, call_ret, issued_ids>>
    /\ UNCHANGED <<weighted, stage_index, district_crops, crop_calendar,
                   est_in, est_out>>
    /\ UNCHANGED <<req, openai_key, month, season, available_villages,
                   selected_village, location, crop, crop_stage, resp>>

\* Step 5, second call; then step 6 and the entry of step 7
FetchForecast ==
    /\ pc = "forecast"
    /\ \/ /\ Called("get_weather_forecast", "failed")
          /\ weather_fetch_fails("Unable to retrieve weather conditions")
       \/ /\ Called("get_weather_forecast", "ok")
          /\ \E forecast_data \in ForecastResponses :
                ClassifyAndEnterAi(cw, forecast_data)
    /\ UNCHANGED <<call_args, call_ret, issued_ids>>
    /\ UNCHANGED <<weighted, stage_index, district_crops, crop_calendar,
                   est_in, est_out>>
    /\ UNCHANGED <<req, openai_key, month, season, available_villages,
                   selected_village, location, crop, crop_stage, resp>>

\* the except branch of generate_ai_alert
AiFails(fault) ==
    /\ ai_fault' = fault
    /\ Assemble(NoneVal, cw, fc, cls)

\* generate_ai_alert: weather re-fetch, current weather
AiFetchCurrentWeather ==
    /\ pc = "ai_current_weather"
    /\ \/ /\ Called("ai_get_current_weather", "failed")
          /\ AiFails("weather_refetch_failed")
       \/ /\ Called("ai_get_current_weather", "ok")
          /\ pc' = "ai_forecast"
          /\ UNCHANGED <<ai, ai_fault, result, error, clock, readings, tasks>>
    /\ UNCHANGED <<call_args, call_ret, issued_ids>>
    /\ UNCHANGED <<weighted, stage_index, district_crops, crop_calendar,
                   est_in, est_out>>
    /\ UNCHANGED <<req, openai_key, month, season, available_villages,
                   selected_village, location, crop, crop_stage, cw, fc,
                   cls, resp>>

\* generate_ai_alert: weather re-fetch, forecast
AiFetchForecast ==
    /\ pc = "ai_forecast"
    /\ \/ /\ Called("ai_get_weather_forecast", "failed")
          /\ AiFails("weather_refetch_failed")
       \/ /\ Called("ai_get_weather_forecast", "ok")
          /\ pc' = "ai_predict_forecast"
          /\ UNCHANGED <<ai, ai_fault, result, error, clock, readings, tasks>>
    /\ UNCHANGED <<call_args, call_ret, issued_ids>>
    /\ UNCHANGED <<weighted, stage_index, district_crops, crop_calendar,
                   est_in, est_out>>
    /\ UNCHANGED <<req, openai_key, month, season, available_villages,
                   selected_village, location, crop, crop_stage, cw, fc,
                   cls, resp>>

\* predict_weather_alert: its own forecast fetch
AiPredictForecast ==
    /\ pc = "ai_predict_forecast"
    /\ \/ /\ Called("predict_get_weather_forecast", "failed")
          /\ AiFails("llm_call_failed")
       \/ /\ Called("predict_get_weather_forecast", "ok")
          /\ pc' = "ai_llm"
          /\ UNCHANGED <<ai, ai_fault, result, error, clock, readings, tasks>>
    /\ UNCHANGED <<call_args, call_ret, issued_ids>>
    /\ UNCHANGED <<weighted, stage_index, district_crops, crop_calendar,
                   est_in, est_out>>
    /\ UNCHANGED <<req, openai_key, month, season, available_villages,
                   selected_village, location, crop, crop_stage, cw, fc,
                   cls, resp>>

\* predict_weather_alert: the chat completion and json.loads, then the
\* rest of generate_ai_alert and of generate_dynamic_alert
AiLlm ==
    /\ pc = "ai_llm"
    /\ \/ /\ Called("openai_chat_completion", "failed")
          /\ AiFails("llm_call_failed")
       \/ \E ai_alert \in LlmAnswers :
            LET ai_analysis == ai_analysis_of(ai_alert, crop, crop_stage,
                                              selected_village, req.district)
            IN  /\ Called("openai_chat_completion", "ok")
                /\ ai_fault' =
                      IF ai_analysis = NoneVal THEN "impact_check_raised"
                      ELSE IF ai_alert.t = "null" THEN "llm_empty_answer"
                      ELSE IF ai_alert.t # "dict" THEN "llm_non_dict_answer"
                      ELSE ""
                /\ Assemble(ai_analysis, cw, fc, cls)
    /\ UNCHANGED <<call_args, call_ret, issued_ids>>
    /\ UNCHANGED <<weighted, stage_index, district_crops, crop_calendar,
                   est_in, est_out>>
    /\ UNCHANGED <<req, openai_key, month, season, available_villages,
                   selected_village, location, crop, crop_stage, cw, fc,
                   cls, resp>>

\* the agents loop on the record generate_dynamic_alert returned. The
\* record has every key the four formatters of a2a_agents read, so they
\* return; their texts are those of SpecChannels and are kept here as a
\* token. telegram_agent.create_telegram_message returns or raises
PipelineAgentOutcomes(telegram) ==
    <<Returned(<<"whatsapp_message">>), Returned(<<"sms_message">>),
      Returned(<<"ussd_menu">>), Returned(<<"ivr_script">>), telegram>>

\* run_workflow after generate_dynamic_alert returned: the agents loop, the
\* reading of the clock for the "Generated at" line of the summary, the CSV
\* export and the success response
RespondSuccess ==
    /\ pc = "returned"
    /\ \E telegram \in TelegramOutcomes :
          LET outcomes == PipelineAgentOutcomes(telegram)
          IN  /\ calls' = calls \o agent_calls_of(outcomes)
              /\ resp' = <<workflow_success(req, result[1],
                                            agent_responses_of(outcomes))>>
    /\ \E now_summary \in Later(clock) :
          /\ clock' = now_summary
          /\ UNCHANGED tasks
          /\ readings' = Append(readings, now_summary)
    /\ pc' = "responded"
    /\ UNCHANGED <<call_args, call_ret, issued_ids>>
    /\ UNCHANGED <<weighted, stage_index, district_crops, crop_calendar,
                   est_in, est_out>>
    /\ UNCHANGED <<req, openai_key, month, season, available_villages,
                   selected_village, location, crop, crop_stage, cw, fc,
                   cls, ai, ai_fault, result, error>>

\* run_workflow after generate_dynamic_alert raised: the except branch
RespondError ==
    /\ pc = "raised"
    /\ resp' = <<[status |-> "error", csv |-> "", error |-> error]>>
    /\ pc' = "responded"
    /\ UNCHANGED <<call_args, call_ret, issued_ids, clock, readings, tasks>>
    /\ UNCHANGED <<weighted, stage_index, district_crops, crop_calendar,
                   est_in, est_out>>
    /\ UNCHANGED <<req, openai_key, month, season, available_villages,
                   selected_village, location, crop, crop_stage, cw, fc,
                   cls, ai, ai_fault, result, error, calls>>

\* the response has been sent; the locals of the request are gone and the
\* server waits for the next request
CloseRequest ==
    /\ pc = "responded"
    /\ pc' = "idle"
    /\ req' = [state |-> "", district |-> ""]
    /\ month' = 0
    /\ clock' = NoClock
    /\ UNCHANGED tasks
    /\ readings' = <<>>
    /\ season' = ""
    /\ available_villages' = <<>>
    /\ selected_village' = ""
    /\ location' = NoLocation
    /\ crop' = ""
    /\ crop_stage' = ""
    /\ cw' = EmptyDict
    /\ fc' = EmptyDict
    /\ cls' = NoClassification
    /\ ai' = NoneVal
    /\ ai_fault' = ""
    /\ result' = NoneVal
    /\ error' = ""
    /\ resp' = NoneVal
    /\ calls' = <<>>
    /\ weighted' = <<>>
    /\ stage_index' = NoneVal
    /\ UNCHANGED <<call_args, call_ret, issued_ids>>
    /\ UNCHANGED <<openai_key, district_crops, crop_calendar, est_in, est_out>>

Next ==
    \/ ReceiveRequest
    \/ ListVillages
    \/ GeocodeVillage
    \/ GeocodeDistrict
    \/ FetchCurrentWeather
    \/ FetchForecast
    \/ AiFetchCurrentWeather
    \/ AiFetchForecast
    \/ AiPredictForecast
    \/ AiLlm
    \/ RespondSuccess
    \/ RespondError
    \/ CloseRequest

Spec == Init /\ [][Next]_vars

----------------------------------------------------------------------------
(* The classifier on its own: generate_weather_based_alert applied to      *)
(* weather data drawn from sets that straddle every threshold               *)

AlertTemps == {20, 39, 40, 100, 140, 141, 144}

AlertWinds == {20, 120, 121, 140}

PrecipDay == {0, 3, 4, 40, 60}

SeqsUpTo(S, n) == UNION {[1..k -> S] : k \in 0..n}

\* weather_data['current_weather'], or the key is absent
AlertCurrentInputs ==
    {EmptyDict, ("current_weather" :> EmptyDict)}
        \cup {("current_weather" :> ("temperature" :> t)) : t \in AlertTemps}
        \cup {("current_weather" :> ("windspeed" :> w)) : w \in AlertWinds}
        \cup {CurrentOf(t, w) : t \in AlertTemps, w \in AlertWinds}

\* weather_data['daily'], or the key is absent
AlertDailyInputs ==
    {EmptyDict, ("daily" :> EmptyDict)}
        \cup {DailyOf(p) : p \in SeqsUpTo(PrecipDay, MaxForecastDays)}

InitAlert ==
    /\ pc = "alert_in"
    /\ req = [state |-> "bihar", district |-> "patna"]
    /\ openai_key = FALSE
    /\ month = 7
    /\ season = "kharif"
    /\ available_villages = <<"Kumhrar">>
    /\ selected_village = "Kumhrar"
    /\ location = NoLocation
    /\ crop = "rice"
    /\ crop_stage = "Transplanting"
    /\ cw \in AlertCurrentInputs
    /\ fc \in AlertDailyInputs
    /\ cls = NoClassification
    /\ ai = NoneVal
    /\ ai_fault = ""
    /\ result = NoneVal
    /\ error = ""
    /\ resp = NoneVal
    /\ calls = <<>>
    /\ weighted = <<>>
    /\ stage_index = NoneVal
    /\ district_crops = DISTRICT_CROPS
    /\ crop_calendar = CROP_CALENDAR
    /\ est_in = NoEstimate
    /\ est_out = EmptyDict
    /\ call_args = NoneVal
    /\ call_ret = NoneVal
    /\ issued_ids = <<>>
    /\ clock = NoClock
    /\ readings = <<>>
    /\ tasks = <<>>

\* one call of generate_weather_based_alert
ClassifyAlert ==
    /\ pc = "alert_in"
    /\ cls' = generate_weather_based_alert(cw @@ fc, crop, crop_stage,
                                           selected_village, req.district)
    /\ pc' = "alert_out"
    /\ UNCHANGED <<call_args, call_ret, issued_ids, clock, readings, tasks>>
    /\ UNCHANGED <<weighted, stage_index, district_crops, crop_calendar,
                   est_in, est_out>>
    /\ UNCHANGED <<req, openai_key, month, season, available_villages,
                   selected_village, location, crop, crop_stage, cw, fc,
                   ai, ai_fault, result, error, resp, calls>>

NextAlert == ClassifyAlert

SpecAlert == InitAlert /\ [][NextAlert]_vars

----------------------------------------------------------------------------
(* The season classifier and the crop selector on their own *)

Months == 1..12

\* what datetime.now() shows when the two functions are called: an instant
\* in the middle of each month, and the last instant of March and of
\* September
CropClock ==
    {<<2025, m, 15, 12, 0, 0, 0>> : m \in Months}
        \cup {p[1] : p \in ClockRollovers}

InitCrop ==
    /\ pc = "crop_in"
    /\ req \in [state : StateNames, district : DistrictNames]
    /\ openai_key = FALSE
    /\ month = 0
    /\ season = ""
    /\ available_villages = <<>>
    /\ selected_village = ""
    /\ location = NoLocation
    /\ crop = ""
    /\ crop_stage = ""
    /\ cw = EmptyDict
    /\ fc = EmptyDict
    /\ cls = NoClassification
    /\ ai = NoneVal
    /\ ai_fault = ""
    /\ result = NoneVal
    /\ error = ""
    /\ resp = NoneVal
    /\ calls = <<>>
    /\ weighted = <<>>
    /\ stage_index = NoneVal
    /\ district_crops = DISTRICT_CROPS
    /\ crop_calendar = CROP_CALENDAR
    /\ est_in = NoEstimate
    /\ est_out = EmptyDict
    /\ call_args = NoneVal
    /\ call_ret = NoneVal
    /\ issued_ids = <<>>
    /\ clock \in CropClock
    /\ readings = <<>>
    /\ tasks = <<>>

\* step 4 of generate_dynamic_alert: select_regional_crop, then
\* estimate_crop_stage
SelectCrop ==
    /\ pc = "crop_in"
    /\ SelectCropAndStage
    /\ pc' = "crop_out"
    /\ UNCHANGED <<call_args, call_ret, issued_ids>>
    /\ UNCHANGED <<est_in, est_out>>
    /\ UNCHANGED <<req, openai_key, available_villages,
                   selected_village, location, cw, fc, cls, ai, ai_fault,
                   result, error, resp, calls>>

\* the same two calls in bihar_agmcp_server.py: the caller reads the clock
\* for estimate_crop_stage first, select_regional_crop reads it again,
\* whatever the state
AgmcpSelectCrop ==
    /\ pc = "crop_in"
    /\ \E now_stage \in Later(clock) :
         \E now_select \in Later(now_stage) :
           /\ month' = now_select[2]
           /\ season' = get_current_season(now_select[2])
           /\ crop' \in agmcp_select_regional_crop(req.district, req.state,
                                                   now_select[2])
           /\ crop_stage' = agmcp_estimate_crop_stage(crop', now_stage[2])
           /\ stage_index' = agmcp_stage_index_of(crop', now_stage[2])
           /\ weighted' = agmcp_suitable_crops(req.district, now_select[2])
           /\ clock' = now_select
           /\ UNCHANGED tasks
           /\ readings' = readings \o <<now_stage, now_select>>
    /\ pc' = "agmcp_crop_out"
    /\ UNCHANGED <<call_args, call_ret, issued_ids>>
    /\ UNCHANGED <<district_crops, crop_calendar, est_in, est_out>>
    /\ UNCHANGED <<req, openai_key, available_villages,
                   selected_village, location, cw, fc, cls, ai, ai_fault,
                   result, error, resp, calls>>

NextCrop == SelectCrop \/ AgmcpSelectCrop

SpecCrop == InitCrop /\ [][NextCrop]_vars

----------------------------------------------------------------------------
(* The stage estimators on their own: the month-based one of the two
   servers and the planting-date one of the crop calendar tools *)

\* crops handed to the month-based estimators: the calendar table and two
\* crops of the district profiles that the table does not have
MonthCrops == DOMAIN CROP_CALENDAR \cup {"potato", "jute"}

\* crops handed to the planting-date estimator: its table, a capitalised
\* name and two crops its table does not have
PlantedCrops == DOMAIN tools_CROP_CALENDAR \cup {"Rice", "jute", "sugarcane"}

PlantDates == {<<2025, 6, 15>>, <<2024, 2, 20>>}

CurrentDates ==
    {<<2025, 1, 1>>, <<2025, 6, 1>>, <<2025, 6, 14>>, <<2025, 6, 15>>,
     <<2025, 6, 22>>, <<2025, 6, 23>>, <<2025, 6, 28>>, <<2025, 7, 15>>,
     <<2025, 10, 12>>, <<2025, 10, 13>>, <<2026, 6, 15>>,
     <<2024, 2, 19>>, <<2024, 2, 20>>, <<2024, 3, 1>>}

InitStage ==
    /\ pc = "stage_in"
    /\ \/ /\ crop \in MonthCrops
          /\ month \in Months
          /\ est_in = NoEstimate
       \/ /\ crop = ""
          /\ month = 1
          /\ est_in \in [crop : PlantedCrops, plant_date : PlantDates,
                          current_date : CurrentDates]
    /\ req = [state |-> "bihar", district |-> "patna"]
    /\ openai_key = FALSE
    /\ season = ""
    /\ available_villages = <<>>
    /\ selected_village = ""
    /\ location = NoLocation
    /\ crop_stage = ""
    /\ cw = EmptyDict
    /\ fc = EmptyDict
    /\ cls = NoClassification
    /\ ai = NoneVal
    /\ ai_fault = ""
    /\ result = NoneVal
    /\ error = ""
    /\ resp = NoneVal
    /\ calls = <<>>
    /\ weighted = <<>>
    /\ stage_index = NoneVal
    /\ district_crops = DISTRICT_CROPS
    /\ crop_calendar = CROP_CALENDAR
    /\ est_out = EmptyDict
    /\ call_args = NoneVal
    /\ call_ret = NoneVal
    /\ issued_ids = <<>>
    /\ clock = NoClock
    /\ readings = <<>>
    /\ tasks = <<>>

\* estimate_crop_stage(crop, current_month) of server.py
EstimateByMonth ==
    /\ pc = "stage_in"
    /\ est_in = NoEstimate
    /\ crop_stage' = estimate_crop_stage(crop, month)
    /\ stage_index' = stage_index_of(crop, month)
    /\ crop_calendar' = crop_calendar_after_estimate(crop, month)
    /\ pc' = "stage_out"
    /\ UNCHANGED <<call_args, call_ret, issued_ids, clock, readings, tasks>>
    /\ UNCHANGED <<req, openai_key, month, season, available_villages,
                   selected_village, location, crop, cw, fc, cls, ai,
                   ai_fault, result, error, resp, calls, weighted,
                   district_crops, est_in, est_out>>

\* estimate_crop_stage(crop, current_month) of bihar_agmcp_server.py
AgmcpEstimateByMonth ==
    /\ pc = "stage_in"
    /\ est_in = NoEstimate
    /\ crop_stage' = agmcp_estimate_crop_stage(crop, month)
    /\ stage_index' = agmcp_stage_index_of(crop, month)
    /\ pc' = "agmcp_stage_out"
    /\ UNCHANGED <<call_args, call_ret, issued_ids, clock, readings, tasks>>
    /\ UNCHANGED <<req, openai_key, month, season, available_villages,
                   selected_village, location, crop, cw, fc, cls, ai,
                   ai_fault, result, error, resp, calls, weighted,
                   district_crops, crop_calendar, est_in, est_out>>

\* estimate_crop_stage(crop, plant_date, current_date) of the tools
EstimateByPlantingDate ==
    /\ pc = "stage_in"
    /\ est_in # NoEstimate
    /\ est_out' = tools_estimate_crop_stage(est_in.crop, est_in.plant_date,
                                            est_in.current_date)
    /\ stage_index' =
           IF lower(est_in.crop) \in DOMAIN tools_CROP_CALENDAR
           THEN <<tools_stage_index_of(lower(est_in.crop),
                      days_since_planting_of(est_in.plant_date,
                                             est_in.current_date))>>
           ELSE NoneVal
    /\ pc' = "planted_out"
    /\ UNCHANGED <<call_args, call_ret, issued_ids, clock, readings, tasks>>
    /\ UNCHANGED <<req, openai_key, month, season, available_villages,
                   selected_village, location, crop, crop_stage, cw, fc,
                   cls, ai, ai_fault, result, error, resp, calls, weighted,
                   district_crops, crop_calendar, est_in>>

NextStage == EstimateByMonth \/ AgmcpEstimateByMonth \/ EstimateByPlantingDate

SpecStage == InitStage /\ [][NextStage]_vars

----------------------------------------------------------------------------
(* The state around the operations that are checked on their own *)

\* the variables of one request's pipeline, which the operations checked
\* on their own do not use
PipelineIdle ==
    /\ req = [state |-> "", district |-> ""]
    /\ openai_key = FALSE
    /\ month = 0
    /\ season = ""
    /\ available_villages = <<>>
    /\ selected_village = ""
    /\ location = NoLocation
    /\ crop = ""
    /\ crop_stage = ""
    /\ cw = EmptyDict
    /\ fc = EmptyDict
    /\ cls = NoClassification
    /\ ai = NoneVal
    /\ ai_fault = ""
    /\ result = NoneVal
    /\ error = ""
    /\ resp = NoneVal
    /\ calls = <<>>
    /\ weighted = <<>>
    /\ stage_index = NoneVal
    /\ district_crops = DISTRICT_CROPS
    /\ crop_calendar = CROP_CALENDAR
    /\ est_in = NoEstimate
    /\ est_out = EmptyDict

PipelineUnchanged ==
    UNCHANGED <<req, openai_key, month, season, available_villages,
                selected_village, location, crop, crop_stage, cw, fc, cls,
                ai, ai_fault, result, error, resp, calls, weighted,
                stage_index, district_crops, crop_calendar, est_in, est_out>>

----------------------------------------------------------------------------
(* The channel formatters on their own, applied to alert records whose
   texts are drawn from small sets *)

ChannelMessages ==
    {<<>>,
     chars("Heavy rainfall expected in next 2 days. Delay fertilizer application. Ensure proper drainage."),
     chars("Heavy rainfall (40.0mm) expected in next 3 days near Kumhrar, Patna. rice at Transplanting stage may be affected. Delay fertilizer application and ensure proper drainage.")}

ChannelAlertIds ==
    {chars("BH_PAT_001_20250723"),
     alert_id_of("bihar", "Patna", "Kumhrar", <<2025, 7, 1, 0, 0, 7>>)}

\* records of the shape generate_dynamic_alert builds, with the fields the
\* formatters read
ChannelAlerts ==
    {[alert_id |-> id,
      location |-> [village |-> chars("Kumhrar"), district |-> chars("Patna")],
      crop |-> [name |-> c, stage |-> st],
      alert |-> [type |-> ty, urgency |-> u, message |-> msg,
                 action_items |-> acts]] :
        id \in ChannelAlertIds,
        c \in {chars("rice"), chars("wheat")},
        st \in {chars("flowering"), chars("Transplanting")},
        ty \in {chars("heavy_rain_warning"), chars("weather_warning"),
                chars("weather_update")},
        u \in {chars("high"), chars("low")},
        msg \in ChannelMessages,
        acts \in {<<>>, <<chars("delay_fertilizer"),
                          chars("check_drainage")>>}}

InitChannels ==
    /\ pc = "channel_in"
    /\ call_args \in [alert_json : ChannelAlerts]
    /\ call_ret = NoneVal
    /\ req = [state |-> "", district |-> ""]
    /\ openai_key = FALSE
    /\ month = 0
    /\ season = ""
    /\ available_villages = <<>>
    /\ selected_village = ""
    /\ location = NoLocation
    /\ crop = ""
    /\ crop_stage = ""
    /\ cw = EmptyDict
    /\ fc = EmptyDict
    /\ cls = NoClassification
    /\ ai = NoneVal
    /\ ai_fault = ""
    /\ result = NoneVal
    /\ error = ""
    /\ resp = NoneVal
    /\ calls = <<>>
    /\ weighted = <<>>
    /\ stage_index = NoneVal
    /\ district_crops = DISTRICT_CROPS
    /\ crop_calendar = CROP_CALENDAR
    /\ est_in = NoEstimate
    /\ est_out = EmptyDict
    /\ issued_ids = <<>>
    /\ clock = NoClock
    /\ readings = <<>>
    /\ tasks = <<>>

\* what a formatter step leaves alone
ChannelFrame ==
    UNCHANGED <<req, openai_key, month, season, available_villages,
                selected_village, location, crop, crop_stage, cw, fc, cls,
                ai, ai_fault, result, error, resp, calls, weighted,
                stage_index, district_crops, crop_calendar, est_in, est_out,
                call_args, issued_ids, clock, readings, tasks>>

\* sms_agent.create_sms_message(alert_json)
CreateSms ==
    /\ pc = "channel_in"
    /\ call_ret' = create_sms_message(call_args.alert_json)
    /\ pc' = "sms_out"
    /\ ChannelFrame

\* whatsapp_agent.create_whatsapp_message(alert_json)
CreateWhatsapp ==
    /\ pc = "channel_in"
    /\ call_ret' = create_whatsapp_message(call_args.alert_json)
    /\ pc' = "whatsapp_out"
    /\ ChannelFrame

\* ussd_agent.create_ussd_menu(alert_json)
CreateUssdMenu ==
    /\ pc = "channel_in"
    /\ call_ret' = create_ussd_menu(call_args.alert_json)
    /\ pc' = "ussd_out"
    /\ ChannelFrame

\* ivr_agent.create_ivr_script(alert_json)
CreateIvr ==
    /\ pc = "channel_in"
    /\ call_ret' = create_ivr_script(call_args.alert_json)
    /\ pc' = "ivr_out"
    /\ ChannelFrame

\* the numbers a USSD user may key in
UssdChoices == {-1, 0, 1, 2, 3, 4}

\* ussd_agent.get_ussd_submenu(alert_json, choice)
GetUssdSubmenu ==
    /\ pc = "channel_in"
    /\ \E choice \in UssdChoices :
          /\ call_args' = [alert_json |-> call_args.alert_json,
                           choice |-> choice]
          /\ call_ret' = get_ussd_submenu(call_args.alert_json, choice)
    /\ pc' = "ussd_submenu_out"
    /\ UNCHANGED <<issued_ids, clock, readings, tasks>>
    /\ PipelineUnchanged

NextChannels ==
    \/ CreateSms
    \/ CreateWhatsapp
    \/ CreateUssdMenu
    \/ CreateIvr
    \/ GetUssdSubmenu

SpecChannels == InitChannels /\ [][NextChannels]_vars

----------------------------------------------------------------------------
(* The agents loop of the two workflows on its own, applied to records of
   which a formatter may find a key missing *)

\* d without the key k
without(d, k) == [x \in DOMAIN d \ {k} |-> d[x]]

\* the record without alert[k]
without_alert(a, k) == [a EXCEPT !.alert = without(a.alert, k)]

\* a record with every field the workflows read
WorkflowCompleteAlerts ==
    {[alert_id |-> chars("BH_PAT_001_20250723"),
      location |-> [village |-> chars("Kumhrar"), district |-> chars("Patna"),
                    state |-> chars("Bihar"), coordinates |-> <<256, 851>>],
      crop |-> [name |-> c, stage |-> chars("flowering")],
      alert |-> [type |-> ty, urgency |-> u, message |-> msg,
                 action_items |-> <<chars("delay_fertilizer"),
                                    chars("check_drainage")>>,
                 ai_generated |-> FALSE],
      weather |-> [temperature |-> chars("28.5"),
                   expected_rainfall |-> chars("12.0mm"),
                   wind_speed |-> chars("8.0 km/h")],
      data_source |-> chars("open_meteo_api")] :
        c \in {chars("rice"), chars("wheat")},
        ty \in {chars("weather_warning"), chars("weather_update")},
        u \in {chars("high"), chars("low")},
        msg \in ChannelMessages}

\* the same records, and the ones that lack a key which only formatters
\* (and generate_csv_export) read
WorkflowAlerts ==
    UNION {{a, without(a, "alert_id"), without_alert(a, "message"),
            without_alert(a, "action_items"),
            without(without_alert(a, "message"), "alert_id")} :
                a \in WorkflowCompleteAlerts}

InitWorkflow ==
    /\ pc = "workflow_in"
    /\ call_args \in [request : {[state |-> "bihar", district |-> "patna"]},
                       sample_alert : WorkflowAlerts]
    /\ call_ret = NoneVal
    /\ issued_ids = <<>>
    /\ clock = NoClock
    /\ readings = <<>>
    /\ tasks = <<>>
    /\ PipelineIdle

\* run_workflow from the return of generate_dynamic_alert on
RunWorkflowAgents ==
    /\ pc = "workflow_in"
    /\ \E telegram \in TelegramOutcomes :
          call_ret' = run_workflow_after_alert(call_args.request,
                                               call_args.sample_alert,
                                               telegram)
    /\ pc' = "workflow_out"
    /\ UNCHANGED <<call_args, issued_ids, clock, readings, tasks>>
    /\ PipelineUnchanged

\* run_workflow_clean from the return of generate_dynamic_alert on
RunWorkflowCleanAgents ==
    /\ pc = "workflow_in"
    /\ \E telegram \in TelegramOutcomes :
          call_ret' = run_workflow_clean_after_alert(call_args.request,
                                                     call_args.sample_alert,
                                                     telegram)
    /\ pc' = "workflow_clean_out"
    /\ UNCHANGED <<call_args, issued_ids, clock, readings, tasks>>
    /\ PipelineUnchanged

NextWorkflow ==
    \/ RunWorkflowAgents
    \/ RunWorkflowCleanAgents

SpecWorkflow == InitWorkflow /\ [][NextWorkflow]_vars

----------------------------------------------------------------------------
(* The two tool endpoints on their own: /mcp with a tool name and
   parameters, /mcp-rpc with a JSON-RPC request *)

\* a dict with the key k when the optional value v is there
Member(k, v) == IF v = NoneVal THEN EmptyDict ELSE (k :> v[1])

\* keyword arguments with a value for every name of the set
Arguments(names) == [k \in names |-> "v"]

\* the parameters sent for a tool: its own required parameters, all its own
\* parameters, none, and one it does not have
ParameterChoices(tool) ==
    LET sig == signature_of(tool)
    IN  {Arguments(sig.required \ {"api_key"}),
         Arguments(sig.params \ {"api_key"}),
         EmptyDict,
         Arguments((sig.required \ {"api_key"}) \cup {"bogus"})}

McpRequests ==
    {[tool |-> "no_such_tool", parameters |-> EmptyDict]}
        \cup UNION {{[tool |-> tool, parameters |-> ps] :
                        ps \in ParameterChoices(tool)} :
                            tool \in DOMAIN TOOL_CONFIG}

\* what the body of a tool ends with once its arguments are bound
ToolOutcomes ==
    {Returned(<<"tool_result">>), Raised(<<"Exception", "tool failed">>)}

\* the two dicts run_workflow returns
WorkflowResults ==
    {[status |-> "success", csv |-> <<"csv_export">>],
     workflow_error(<<"Failed to generate weather alert">>)}

RpcToolNames ==
    {Str("run_workflow"), Str("estimate_crop_stage"),
     Str("get_weather_alerts"), Str("no_such_tool"), PyNone}

\* the "arguments" member: absent, null, and objects for run_workflow (with
\* a state or a district that is absent or null) and for other tools
RpcArguments ==
    {NoneVal, <<PyNone>>, <<JDict(EmptyDict)>>,
     <<JDict([state |-> Str("bihar"), district |-> Str("patna")])>>,
     <<JDict([state |-> Str("bihar")])>>,
     <<JDict([state |-> PyNone, district |-> Str("patna")])>>,
     <<JDict([state |-> Str("bihar"), district |-> PyNone])>>,
     <<JDict(Arguments({"crop", "plant_date", "current_date"}))>>,
     <<JDict(Arguments({"location"}))>>}

RpcParams ==
    {NoneVal, <<PyNone>>, <<JDict(EmptyDict)>>}
        \cup {<<JDict(("tool_name" :> t) @@ Member("arguments", a))>> :
                 t \in RpcToolNames, a \in RpcArguments}

RpcRequests ==
    {Member("method", m) @@ Member("params", p) @@ Member("id", i) :
        m \in {NoneVal, <<Str("call_tool")>>, <<Str("list_tools")>>},
        p \in RpcParams,
        i \in {NoneVal, <<JNum("1")>>}}

InitRpc ==
    /\ \/ /\ pc = "mcp_in"
          /\ call_args \in McpRequests
       \/ /\ pc = "rpc_in"
          /\ call_args \in [request : RpcRequests]
    /\ call_ret = NoneVal
    /\ issued_ids = <<>>
    /\ clock = NoClock
    /\ readings = <<>>
    /\ tasks = <<>>
    /\ PipelineIdle

\* POST /mcp, up to the await of the tool, or to the answer when the
\* handler does not get that far
McpEndpoint ==
    /\ pc = "mcp_in"
    /\ IF mcp_endpoint_awaits(call_args.tool, call_args.parameters)
       THEN /\ pc' = "mcp_awaiting"
            /\ UNCHANGED call_ret
       ELSE /\ pc' = "mcp_out"
            /\ call_ret' = mcp_endpoint(call_args.tool, call_args.parameters,
                                        NoneVal)
    /\ UNCHANGED <<call_args, issued_ids, clock, readings, tasks>>
    /\ PipelineUnchanged

\* POST /mcp, from the moment the awaited tool returns or raises
McpEndpointResume ==
    /\ pc = "mcp_awaiting"
    /\ \E tool_outcome \in ToolOutcomes :
          call_ret' = mcp_endpoint(call_args.tool, call_args.parameters,
                                   tool_outcome)
    /\ pc' = "mcp_out"
    /\ UNCHANGED <<call_args, issued_ids, clock, readings, tasks>>
    /\ PipelineUnchanged

\* POST /mcp-rpc, up to the await of run_workflow or of the tool, or to the
\* answer or the exception when the handler does not get that far
McpRpcHandler ==
    /\ pc = "rpc_in"
    /\ IF mcp_rpc_handler_awaits(call_args.request) = "nothing"
       THEN /\ pc' = "rpc_out"
            /\ call_ret' = mcp_rpc_handler(call_args.request, NoneVal,
                                           NoneVal)
       ELSE /\ pc' = "rpc_awaiting"
            /\ UNCHANGED call_ret
    /\ UNCHANGED <<call_args, issued_ids, clock, readings, tasks>>
    /\ PipelineUnchanged

\* POST /mcp-rpc, from the moment run_workflow returns, or the awaited tool
\* returns or raises
McpRpcHandlerResume ==
    /\ pc = "rpc_awaiting"
    /\ \E workflow_result \in WorkflowResults,
          tool_outcome \in ToolOutcomes :
            call_ret' = mcp_rpc_handler(call_args.request, workflow_result,
                                        tool_outcome)
    /\ pc' = "rpc_out"
    /\ UNCHANGED <<call_args, issued_ids, clock, readings, tasks>>
    /\ PipelineUnchanged

NextRpc ==
    \/ McpEndpoint
    \/ McpEndpointResume
    \/ McpRpcHandler
    \/ McpRpcHandlerResume

SpecRpc == InitRpc /\ [][NextRpc]_vars

----------------------------------------------------------------------------
(* prioritize_alerts on its own, applied to short lists of alerts and to
   urgency factors that leave crops out *)

\* the alerts handed in: without an urgency, or with one from an earlier
\* call
PrioritizedAlerts ==
    [crop : {"rice", "wheat", "maize"}, note : {"first", "second"}]
        \cup [crop : {"rice", "wheat", "maize"}, note : {"first"},
              urgency : {9}]

AlertLists == UNION {[1..n -> PrioritizedAlerts] : n \in 0..MaxAlerts}

UrgencyFactors ==
    {EmptyDict,
     ("rice" :> 2),
     ("rice" :> 2) @@ ("wheat" :> 2),
     ("rice" :> 1) @@ ("wheat" :> 3) @@ ("maize" :> -1)}

InitPrioritize ==
    /\ pc = "prioritize_in"
    /\ call_args \in [alerts_list : AlertLists,
                       urgency_factors : UrgencyFactors]
    /\ call_ret = NoneVal
    /\ issued_ids = <<>>
    /\ clock = NoClock
    /\ readings = <<>>
    /\ tasks = <<>>
    /\ PipelineIdle

\* alert_generation_tools.prioritize_alerts(alerts_list, urgency_factors):
\* the loop writes the urgency into the dicts of the caller's list, sorted()
\* returns a new list of the same dicts
PrioritizeAlerts ==
    /\ pc = "prioritize_in"
    /\ call_ret' = prioritize_alerts(call_args.alerts_list,
                                     call_args.urgency_factors)
    /\ call_args' = [call_args EXCEPT !.alerts_list =
                         with_urgency(call_args.alerts_list,
                                      call_args.urgency_factors)]
    /\ pc' = "prioritize_out"
    /\ UNCHANGED <<issued_ids, clock, readings, tasks>>
    /\ PipelineUnchanged

NextPrioritize == PrioritizeAlerts

SpecPrioritize == InitPrioritize /\ [][NextPrioritize]_vars

----------------------------------------------------------------------------
(* Several requests served at once.  The handlers are coroutines on one
   event loop: a request runs until its next await, and the steps of the
   requests in flight interleave at the awaits of generate_dynamic_alert
   (list_villages, get_location_coordinates, the weather calls).  Step 4,
   select_regional_crop and estimate_crop_stage, has no await and runs as
   one step against the two module-level tables all requests share. *)

NoTask == [pc |-> "idle", req |-> NoneVal, month |-> 0, crop |-> "",
           crop_stage |-> ""]

TaskRequests ==
    {[state |-> "bihar", district |-> "Patna"],
     [state |-> "Bihar", district |-> "nalanda"],
     [state |-> "punjab", district |-> "Patna"]}

\* the months the clock shows when step 4 starts: April, in which no crop
\* of Patna is in season, and December, in which some are
TaskMonths == {4, 12}

InitTables ==
    /\ pc = "serving"
    /\ tasks = [t \in 1..MaxTasks |-> NoTask]
    /\ call_args = NoneVal
    /\ call_ret = NoneVal
    /\ issued_ids = <<>>
    /\ clock = NoClock
    /\ readings = <<>>
    /\ PipelineIdle

TablesFrame ==
    UNCHANGED <<pc, req, openai_key, month, season, available_villages,
                selected_village, location, crop, crop_stage, cw, fc, cls,
                ai, ai_fault, result, error, resp, calls, weighted,
                stage_index, est_in, est_out, call_args, call_ret,
                issued_ids, clock, readings>>

\* a request arrives and runs up to await list_villages
TaskReceive(t) ==
    /\ tasks[t].pc = "idle"
    /\ \E r \in TaskRequests :
         tasks' = [tasks EXCEPT ![t] = [NoTask EXCEPT !.pc = "list_villages",
                                                      !.req = r]]
    /\ UNCHANGED <<district_crops, crop_calendar>>
    /\ TablesFrame

\* list_villages returns: steps 1 and 2 raise, and the request ends with an
\* error response, or run up to await get_location_coordinates
TaskListVillages(t) ==
    /\ tasks[t].pc = "list_villages"
    /\ \/ tasks' = [tasks EXCEPT ![t] = NoTask]
       \/ tasks' = [tasks EXCEPT ![t].pc = "geocode_village"]
    /\ UNCHANGED <<district_crops, crop_calendar>>
    /\ TablesFrame

\* the months the clock can show when estimate_crop_stage is handed its
\* reading: the month in which step 4 started, or the one after it
LaterMonths(m) == {m, (m % 12) + 1}

\* get_location_coordinates returns: step 4 runs up to await
\* get_current_weather.  For Bihar select_regional_crop reads the clock
\* as the step starts and estimate_crop_stage is handed a second reading;
\* for another state select_regional_crop returns before it reads the
\* clock, current_month stays unread, and the only reading is the one
\* estimate_crop_stage gets
TaskSelectCropAndStage(t) ==
    /\ tasks[t].pc = "geocode_village"
    /\ \E m_first \in TaskMonths :
         \E m_stage \in LaterMonths(m_first) :
           LET m_select == IF lower(tasks[t].req.state) = "bihar"
                           THEN m_first ELSE 0
           IN  \E c \in select_regional_crop(tasks[t].req.district,
                                             tasks[t].req.state, m_select) :
                 /\ tasks' = [tasks EXCEPT ![t].pc = "fetch_weather",
                                           ![t].month = m_select,
                                           ![t].crop = c,
                                           ![t].crop_stage =
                                               estimate_crop_stage(c, m_stage)]
                 /\ district_crops' = district_crops_after_select(
                                          tasks[t].req.district,
                                          tasks[t].req.state, m_select)
                 /\ crop_calendar' = crop_calendar_after_estimate(c, m_stage)
    /\ TablesFrame

\* the weather calls return: the remaining steps build the record from the
\* locals of the request and the response is sent
TaskRespond(t) ==
    /\ tasks[t].pc = "fetch_weather"
    /\ tasks' = [tasks EXCEPT ![t] = NoTask]
    /\ UNCHANGED <<district_crops, crop_calendar>>
    /\ TablesFrame

NextTables ==
    \E t \in 1..MaxTasks :
        \/ TaskReceive(t)
        \/ TaskListVillages(t)
        \/ TaskSelectCropAndStage(t)
        \/ TaskRespond(t)

SpecTables == InitTables /\ [][NextTables]_vars

----------------------------------------------------------------------------
(* The alert ids of several requests: each request reaches the "Generate
   unique alert ID" line of generate_dynamic_alert at some reading of the
   clock; requests served concurrently or quickly one after the other read
   it within the same second *)

InitIds ==
    /\ pc = "serving"
    /\ clock = <<2025, 7, 1, 0, 0, 0, 0>>
    /\ readings = <<>>
    /\ tasks = <<>>
    /\ issued_ids = <<>>
    /\ call_args = NoneVal
    /\ call_ret = NoneVal
    /\ PipelineIdle

\* a second passes
AdvanceClock ==
    /\ clock[6] < MaxTicks
    /\ clock' = [clock EXCEPT ![6] = @ + 1]
    /\ UNCHANGED <<pc, issued_ids, call_args, call_ret, readings, tasks>>
    /\ PipelineUnchanged

\* one more request, for some state, district and selected village, builds
\* its alert_id from datetime.now()
IssueAlertId ==
    /\ Len(issued_ids) < MaxRequests
    /\ \E st \in PipelineStates, d \in PipelineDistricts,
          v \in Range(Prefix(VillagePool, MaxVillages)) :
            issued_ids' = Append(issued_ids, alert_id_of(st, d, v, clock))
    /\ UNCHANGED <<pc, clock, readings, call_args, call_ret, tasks>>
    /\ PipelineUnchanged

NextIds ==
    \/ AdvanceClock
    \/ IssueAlertId

SpecIds == InitIds /\ [][NextIds]_vars

----------------------------------------------------------------------------
(* Properties *)

\* the position of an external step in generate_dynamic_alert and in the
\* agents loop of run_workflow
StepRank(name) ==
    CASE name = "list_villages" -> 1
      [] name = "reverse_geocode_village" -> 2
      [] name = "reverse_geocode_district" -> 3
      [] name = "get_current_weather" -> 4
      [] name = "get_weather_forecast" -> 5
      [] name = "ai_get_current_weather" -> 6
      [] name = "ai_get_weather_forecast" -> 7
      [] name = "predict_get_weather_forecast" -> 8
      [] name = "openai_chat_completion" -> 9
      [] name = "create_whatsapp_message" -> 10
      [] name = "create_sms_message" -> 11
      [] name = "create_ussd_menu" -> 12
      [] name = "create_ivr_script" -> 13
      [] name = "create_telegram_message" -> 14

\* the trace of the request visits the steps in their order, each once
CallsInOrder ==
    \A i \in DOMAIN calls :
        i < Len(calls) => StepRank(calls[i][1]) < StepRank(calls[i + 1][1])

Made(name) == \E i \in DOMAIN calls : calls[i][1] = name

Succeeded(name) == \E i \in DOMAIN calls : calls[i] = <<name, "ok">>

\* a call of generate_ai_alert's collaborators is in the trace
AiCalled ==
    \E i \in DOMAIN calls :
        StepRank(calls[i][1]) \in 6..9

\* a channel formatter is in the trace
FormatterCalled ==
    \E i \in DOMAIN calls :
        StepRank(calls[i][1]) \in 10..14

\* the record has every part the "Build final response" step gives it
RecordComplete(r) ==
    /\ {"alert_id", "location", "crop", "alert", "weather", "data_source"}
          \subseteq DOMAIN r
    /\ r.alert_id # <<>>
    /\ r.alert.type # ""

\* the readings of lines 436, 441, 453 and 461: they follow the one of line
\* 380 and, for a request of Bihar, the one of line 136
AssembleReadings ==
    LET before == IF lower(req.state) = "bihar" THEN 2 ELSE 1
    IN  SubSeq(readings, before + 1, before + 4)

\* the record the request would have returned without an AI narrative, on
\* the same four readings of the clock
RecordWithoutAi ==
    build_result(req.district, req.state, selected_village,
                 available_villages, location, crop, crop_stage, cw, fc, cls,
                 NoneVal, AssembleReadings)

\* the two records differ at most in alert.message, alert.ai_generated,
\* data_source and the ai_analysis block
SameButAiFields(r, plain) ==
    /\ DOMAIN r \ {"ai_analysis"} = DOMAIN plain
    /\ \A k \in DOMAIN plain \ {"alert", "data_source"} : r[k] = plain[k]
    /\ DOMAIN r.alert = DOMAIN plain.alert
    /\ \A k \in DOMAIN plain.alert \ {"message", "ai_generated"} :
          r.alert[k] = plain.alert[k]

\* text.startswith(prefix)
starts_with(text, prefix) ==
    Len(text) >= Len(prefix) /\ SubSeq(text, 1, Len(prefix)) = prefix

\* the characters of the digits 0..9
DigitChars == <<"0", "1", "2", "3", "4", "5", "6", "7", "8", "9">>

\* the text has a line that starts with "<d>. "
OffersChoice(text, d) ==
    LET option == <<DigitChars[d + 1]>> \o chars(". ")
    IN  \/ starts_with(text, option)
        \/ occurrences(text, <<"\n">> \o option) # {}

\* the numbers the text offers to the user
OfferedChoices(text) == {d \in 0..9 : OffersChoice(text, d)}

\* the numbers offered by the main menu and by the two submenus
UssdOffered(a) ==
    OfferedChoices(create_ussd_menu(a))
        \cup OfferedChoices(get_ussd_submenu(a, 1))
        \cup OfferedChoices(get_ussd_submenu(a, 2))

\* the one-to-one maps of 1..n onto itself
OneToOneMaps(n) ==
    {p \in [1..n -> 1..n] : \A i, j \in 1..n : i # j => p[i] # p[j]}

\* the urgency the factors give a crop
UrgencyOf(urgency_factors, c) ==
    IF c \in DOMAIN urgency_factors THEN urgency_factors[c] ELSE 0

\* out is the list of the input alerts, each once, at the places p, with
\* the urgency of its crop in the place of the one it came with, if any;
\* the urgencies do not increase and alerts of equal urgency are in their
\* input order
IsStablePrioritization(out, alerts_list, urgency_factors, p) ==
    /\ \A i \in DOMAIN out :
          /\ without(out[i], "urgency")
                 = without(alerts_list[p[i]], "urgency")
          /\ out[i].urgency = UrgencyOf(urgency_factors, out[i].crop)
    /\ \A i, j \in DOMAIN out :
          i < j =>
              /\ out[i].urgency >= out[j].urgency
              /\ out[i].urgency = out[j].urgency => p[i] < p[j]

\* the response has exactly one of 'result' and 'error'
OneOfResultAndError(r) ==
    ("result" \in DOMAIN r) # ("error" \in DOMAIN r)

\* the response is the error of the given code
IsRpcError(r, code) ==
    "error" \in DOMAIN r /\ r.error.code = code

\* the call of the tool failed on the keyword api_key
FailsOnInjectedKey(r) ==
    /\ r.raised
    /\ r.error[2] = 500
    /\ r.error[3][1] = "TypeError"
    /\ r.error[3][2] = "unexpected keyword argument"
    /\ "api_key" \in r.error[3][3]

\* the entry of agent_responses is the formatter's output when the record
\* has every key the formatter reads, and an error string otherwise
EntryIsOutputOrError(entry, a, reads, output) ==
    IF first_missing(a, reads) = <<>>
    THEN entry = output
    ELSE starts_with(entry, chars("Error:"))

\* reading a button payload back: the text after the fixed prefix
strip_prefix(text, prefix) ==
    IF starts_with(text, prefix)
    THEN SubSeq(text, Len(prefix) + 1, Len(text))
    ELSE text

\* the text after the first occurrence of the label
after_label(text, label) ==
    LET occ == occurrences(text, label)
    IN  IF occ = {} THEN <<>>
        ELSE LET i == CHOOSE j \in occ : \A k \in occ : j <= k
             IN  SubSeq(text, i + Len(label), Len(text))

\* the text before the first occurrence of the mark
before_mark(text, mark) ==
    LET occ == occurrences(text, mark)
    IN  IF occ = {} THEN text
        ELSE LET i == CHOOSE j \in occ : \A k \in occ : j <= k
             IN  SubSeq(text, 1, i - 1)

\* reading a labelled field back out of a formatted text
field_between(text, label, mark) ==
    before_mark(after_label(text, label), mark)

\* the crop name read back from each channel's output
WhatsappCropName(msg) ==
    field_between(msg.text, whatsapp_crop_label, chars(" ("))

SmsCropName(sms) ==
    field_between(sms, to_hindi(chars("Crop")) \o chars(": "), chars(", "))

UssdCropName(menu) ==
    field_between(menu, ussd_menu_head, ussd_menu_tail)

IvrCropName(script) ==
    field_between(script[2].text, chars("Fasal: "), chars("."))

\* the alert_id read back from the two WhatsApp buttons
WhatsappPayloadsCarryId(msg, alert_id) ==
    /\ starts_with(msg.buttons[1].payload, chars("ack_"))
    /\ strip_prefix(msg.buttons[1].payload, chars("ack_")) = alert_id
    /\ starts_with(msg.buttons[2].payload, chars("info_"))
    /\ strip_prefix(msg.buttons[2].payload, chars("info_")) = alert_id

\* the values the classifier sees in the state: the fields of the weather
\* data, or the defaults of the .get calls
SeenTemp == Get(Get(cw, "current_weather", EmptyDict), "temperature", 100)

SeenWind == Get(Get(cw, "current_weather", EmptyDict), "windspeed", 40)

SeenRain == next_3_days_rain_of(Get(fc, "daily", EmptyDict))

AlertTypes ==
    {"heavy_rain_warning", "moderate_rain_warning", "heat_drought_warning",
     "cold_warning", "high_wind_warning", "weather_update"}

\* C1: the classifier returns the type of the first rule that matches, in
\* the order heavy rain (> 25), moderate rain (> 10), heat and drought
\* (rain < 2 and temp > 35), cold (temp < 10), high wind (> 30), update;
\* heavy rain wins whenever the 3-day sum exceeds 25
ThmC1_FirstMatchingRule ==
    pc = "alert_out" =>
        LET heavy == SeenRain > 100
            moderate == SeenRain > 40
            heat == SeenRain < 8 /\ SeenTemp > 140
            cold == SeenTemp < 40
            windy == SeenWind > 120
        IN  /\ heavy => cls.type = "heavy_rain_warning"
            /\ ~heavy /\ moderate => cls.type = "moderate_rain_warning"
            /\ ~heavy /\ ~moderate /\ heat
                  => cls.type = "heat_drought_warning"
            /\ ~heavy /\ ~moderate /\ ~heat /\ cold
                  => cls.type = "cold_warning"
            /\ ~heavy /\ ~moderate /\ ~heat /\ ~cold /\ windy
                  => cls.type = "high_wind_warning"
            /\ ~heavy /\ ~moderate /\ ~heat /\ ~cold /\ ~windy
                  => cls.type = "weather_update"

\* C1 witness: temp = 36, wind = 35, rain = 26 classified as heavy rain
WitC1_HeavyRainOverHeatAndWind ==
    /\ pc = "alert_out"
    /\ SeenTemp = 144
    /\ SeenWind = 140
    /\ SeenRain = 104
    /\ cls.type = "heavy_rain_warning"

\* C2: every record returned by generate_dynamic_alert has one of the six
\* alert types and an urgency among low, medium, high
ThmC2_TypeAndUrgencyEnums ==
    result # NoneVal =>
        /\ result[1].alert.type \in AlertTypes
        /\ result[1].alert.urgency \in {"low", "medium", "high"}

\* C2 witness: a record with an AI narrative and one without, here the
\* one with a narrative on a high wind warning
WitC2_RecordWithNarrative ==
    /\ result # NoneVal
    /\ result[1].alert.ai_generated
    /\ result[1].alert.type = "high_wind_warning"
    /\ result[1].alert.urgency = "medium"

ExpectedUrgency ==
    [heavy_rain_warning |-> "high", heat_drought_warning |-> "high",
     moderate_rain_warning |-> "medium", cold_warning |-> "medium",
     high_wind_warning |-> "medium", weather_update |-> "low"]

ExpectedActions ==
    [heavy_rain_warning |-> <<"delay_fertilizer", "check_drainage",
                              "monitor_crops", "prepare_harvest_protection">>,
     moderate_rain_warning |-> <<"monitor_soil", "check_drainage",
                                 "adjust_irrigation">>,
     heat_drought_warning |-> <<"increase_irrigation", "mulch_crops",
                                "monitor_plant_stress">>,
     cold_warning |-> <<"protect_crops", "cover_seedlings",
                        "adjust_irrigation_timing">>,
     high_wind_warning |-> <<"secure_supports", "check_structures",
                             "monitor_damage">>,
     weather_update |-> <<"routine_monitoring", "maintain_irrigation">>]

\* C3: a classification that is not the generic update has a non-empty
\* action list, and the type alone fixes the urgency and the action list
ThmC3_TypeFixesUrgencyAndActions ==
    pc = "alert_out" =>
        /\ cls.type \in AlertTypes
        /\ cls.type # "weather_update" => cls.action_items # <<>>
        /\ cls.urgency = ExpectedUrgency[cls.type]
        /\ cls.action_items = ExpectedActions[cls.type]

\* C3 witness: a cold warning with its three actions
WitC3_ColdWarning ==
    /\ pc = "alert_out"
    /\ cls.type = "cold_warning"
    /\ cls.urgency = "medium"
    /\ Len(cls.action_items) = 3

Failed(name) == \E i \in DOMAIN calls : calls[i][1] = name /\ calls[i][2] # "ok"

WeatherFetchFailed ==
    Failed("get_current_weather") \/ Failed("get_weather_forecast")

\* C4: when the current weather or the forecast fetch fails,
\* generate_dynamic_alert raises, returns no record, and run_workflow
\* answers status error, empty csv, no alert data
ThmC4_WeatherFailureFailsRequest ==
    WeatherFetchFailed =>
        /\ result = NoneVal
        /\ pc \in {"raised", "responded"}
        /\ error = "Unable to retrieve weather conditions"
        /\ pc = "responded" =>
              /\ resp[1].status = "error"
              /\ resp[1].csv = ""
              /\ "raw_data" \notin DOMAIN resp[1]

\* C4 witness: the forecast fetch failed and run_workflow has answered
WitC4_ForecastFailedAnswered ==
    /\ Failed("get_weather_forecast")
    /\ pc = "responded"
    /\ resp[1].status = "error"

BothGeocodesFailed ==
    Failed("reverse_geocode_village") /\ Failed("reverse_geocode_district")

\* C5 as claimed: when neither the village nor the district can be
\* geocoded the request fails and no alert is produced
CexC5_NoCoordinatesFailsRequest ==
    BothGeocodesFailed => result = NoneVal /\ pc # "returned"

\* C5 as amended: when neither the village nor the district can be
\* geocoded the request goes on with the Patna fallback coordinates; no
\* location error is raised, and the record that is produced when the
\* weather fetch succeeds carries those coordinates and their source
ThmC5_NoCoordinatesFallsBackToPatna ==
    BothGeocodesFailed =>
        /\ location = [coords |-> PatnaFallback, source |-> <<"fallback_patna">>]
        /\ error \in {"", "Unable to retrieve weather conditions"}
        /\ error # "" => WeatherFetchFailed
        /\ pc \in {"returned", "responded"} /\ ~WeatherFetchFailed =>
              /\ result # NoneVal
              /\ result[1].location.coordinates = PatnaFallback
              /\ result[1].location.coordinates_source = <<"fallback_patna">>

\* C5 witness: both geocoding calls failed and a record was returned
WitC5_RecordOnPatnaFallback ==
    /\ BothGeocodesFailed
    /\ pc = "returned"
    /\ result # NoneVal
    /\ result[1].location.coordinates = PatnaFallback

VillageLookupFailed ==
    /\ calls # <<>>
    /\ calls[1][1] = "list_villages"
    /\ calls[1][2] \in {"error", "empty"}

\* C6: when the village lookup returns an error or no village,
\* generate_dynamic_alert fails before any geocoding, weather or AI call,
\* and no record is produced
ThmC6_VillageFailureStopsFirst ==
    VillageLookupFailed =>
        /\ Len(calls) = 1
        /\ result = NoneVal
        /\ pc \in {"raised", "responded"}
        /\ error \in {"District not found", "No villages found"}

\* C6 witness: an empty village list, answered as an error
WitC6_EmptyVillageList ==
    /\ VillageLookupFailed
    /\ calls[1][2] = "empty"
    /\ error = "No villages found"
    /\ pc = "responded"

\* C7 as claimed: whatever fails in the AI step (no key, weather re-fetch,
\* LLM call, empty or non-dict answer), the record is returned with
\* ai_generated false and the template message
CexC7_AiFailureKeepsTemplate ==
    ai_fault # "" /\ pc \in {"returned", "responded"} =>
        /\ result # NoneVal
        /\ ~result[1].alert.ai_generated
        /\ result[1].alert.message = cls.message

\* C8: ai_generated is true and the message is the narrative's
\* enhanced_message exactly when a narrative was obtained; otherwise
\* ai_generated is false and the message is the template message
ThmC8_MessageFollowsNarrative ==
    result # NoneVal =>
        /\ result[1].alert.ai_generated <=> ai # NoneVal
        /\ ai # NoneVal =>
              /\ result[1].alert.message = ai[1].enhanced_message
              /\ result[1].alert.message.kind = "ai"
        /\ ai = NoneVal =>
              /\ result[1].alert.message = cls.message
              /\ result[1].alert.message.kind = "rule"

\* C8 witness: a record whose message is the narrative of a full LLM answer
WitC8_NarrativeMessage ==
    /\ result # NoneVal
    /\ ai # NoneVal
    /\ ai_fault = ""
    /\ result[1].alert.message.template = "ai_alert_with_impact"

\* C9: every month 1..12 has exactly one season: 6..9 kharif, 10..3 rabi,
\* 4 and 5 zaid; month is the month either copy of select_regional_crop
\* read from the clock (the copy of server.py reads it for Bihar only) and
\* season the season it derived from it
ThmC9_SeasonPartition ==
    ((pc = "crop_out" /\ lower(req.state) = "bihar")
            \/ pc = "agmcp_crop_out") =>
        /\ month \in 1..12
        /\ season \in {"kharif", "rabi", "zaid"}
        /\ season = "kharif" <=> month \in {6, 7, 8, 9}
        /\ season = "rabi" <=> month \in {10, 11, 12, 1, 2, 3}
        /\ season = "zaid" <=> month \in {4, 5}

\* C9 witness: March is rabi
WitC9_MarchIsRabi ==
    pc = "crop_out" /\ month = 3 /\ season = "rabi"

\* the crops of the district's profile that the season allows
ProfileCrops(d) ==
    LET prefs == Get(DISTRICT_CROPS, lower(d), DefaultDistrictPrefs)
    IN  Range(prefs.primary) \cup Range(prefs.secondary)
            \cup Range(prefs.specialty)

SeasonCompatible(m) ==
    IF m \in {6, 7, 8, 9}
        THEN {"rice", "maize", "sugarcane", "jowar", "bajra", "groundnut"}
    ELSE IF m \in {4, 5} THEN {"maize", "moong", "watermelon", "cucumber"}
    ELSE {"wheat", "barley", "gram", "lentil", "mustard", "potato"}

CropWithinProfileAndSeason ==
    LET compatible == ProfileCrops(req.district) \cap SeasonCompatible(month)
        primary == Get(DISTRICT_CROPS, lower(req.district),
                       DefaultDistrictPrefs).primary
    IN  IF compatible # {} THEN crop \in compatible
        ELSE crop \in (IF primary = <<>> THEN {"rice"} ELSE Range(primary))

\* C10 as claimed: for every district and season the selected crop is a
\* season-compatible crop of the district's profile, or a primary crop
\* when the profile has no season-compatible crop
CexC10_CropWithinProfileAndSeason ==
    pc = "crop_out" => CropWithinProfileAndSeason

\* C10 as amended: the same, for requests whose state is Bihar in any
\* letter case; for any other state the result is 'rice'
ThmC10_BiharCropWithinProfileAndSeason ==
    pc = "crop_out" =>
        IF lower(req.state) = "bihar" THEN CropWithinProfileAndSeason
        ELSE crop = "rice"

\* C10 witness: gaya in December (rabi), state spelled Bihar: the
\* secondary crop barley, which the season allows, is chosen
WitC10_CompatibleCropChosen ==
    /\ pc = "crop_out"
    /\ req = [state |-> "Bihar", district |-> "gaya"]
    /\ month = 12
    /\ crop = "barley"


\* number of occurrences of x in the list s
RECURSIVE Count(_, _)
Count(s, x) ==
    IF s = <<>> THEN 0
    ELSE (IF Head(s) = x THEN 1 ELSE 0) + Count(Tail(s), x)

\* the tier weight the profile of the request's district gives a crop
TierWeight(c) ==
    LET prefs == Get(DISTRICT_CROPS, lower(req.district),
                     DefaultDistrictPrefs)
    IN  IF c \in Range(prefs.primary) THEN 5
        ELSE IF c \in Range(prefs.secondary) THEN 3
        ELSE 1

CandidatesWeighted ==
    /\ weighted # <<>>
    /\ \A c \in Range(weighted) : Count(weighted, c) = TierWeight(c)

\* C11 as stated: in the candidate list of select_regional_crop, in either
\* copy of the selector, every surviving crop occurs 5 times if primary,
\* 3 times if secondary and once otherwise.  The copy in
\* bihar_agmcp_server.py draws from the surviving crops themselves, each
\* occurring once whatever its tier
CexC11_CandidatesWeighted ==
    (pc \in {"crop_out", "agmcp_crop_out"} /\ lower(req.state) = "bihar")
        => CandidatesWeighted

\* the season of a month, as the spec tabulates it
SeasonOfMonth(m) ==
    IF m \in {6, 7, 8, 9} THEN "kharif"
    ELSE IF m \in {4, 5} THEN "zaid"
    ELSE "rabi"

\* what the default profile primary=[rice, wheat], secondary=[gram],
\* specialty=[maize] leaves in each season, with the tier weights
DefaultWeightedCandidates(m) ==
    CASE SeasonOfMonth(m) = "kharif" ->
             <<"rice", "rice", "rice", "rice", "rice", "maize">>
      [] SeasonOfMonth(m) = "rabi" ->
             <<"wheat", "wheat", "wheat", "wheat", "wheat",
               "gram", "gram", "gram">>
      [] OTHER -> <<"maize">>

\* the same without weights
DefaultCandidates(m) ==
    CASE SeasonOfMonth(m) = "kharif" -> <<"rice", "maize">>
      [] SeasonOfMonth(m) = "rabi" -> <<"wheat", "gram">>
      [] OTHER -> <<"maize">>

\* C12: for a district that is not in the district table the selector
\* returns a crop (it does not raise) chosen from the default profile
\* primary=[rice, wheat], secondary=[gram], specialty=[maize], in every
\* season and in both copies of the selector
ThmC12_UnknownDistrictUsesDefaultProfile ==
    /\ (pc = "crop_out" /\ lower(req.district) \notin DOMAIN DISTRICT_CROPS)
           => /\ crop \in {"rice", "wheat", "gram", "maize"}
              /\ lower(req.state) = "bihar" =>
                     /\ weighted = DefaultWeightedCandidates(month)
                     /\ crop \in Range(weighted)
    /\ (pc = "agmcp_crop_out"
            /\ lower(req.district) \notin DOMAIN agmcp_DISTRICT_CROPS)
           => /\ weighted = DefaultCandidates(month)
              /\ crop \in Range(weighted)

\* C12 witness: the unknown district nalanda in July: maize, the specialty
\* crop of the default profile, is selected
WitC12_UnknownDistrictGetsMaize ==
    /\ pc = "crop_out"
    /\ req = [state |-> "bihar", district |-> "nalanda"]
    /\ month = 7
    /\ crop = "maize"

\* C13: for every crop of the calendar table and every month, absent from
\* the crop's month table or not, both month-based estimators use an index
\* within [0, len(stages)-1], which is len(stages) // 2 when the month has
\* no entry, and return the stage at that index
ThmC13_MonthIndexWithinStages ==
    (pc \in {"stage_out", "agmcp_stage_out"} /\ crop \in DOMAIN CROP_CALENDAR)
        => LET stages == CROP_CALENDAR[crop].stages
               table == IF pc = "stage_out" THEN stage_mappings
                        ELSE agmcp_stage_mappings
           IN  /\ stage_index # NoneVal
               /\ stage_index[1] \in 0..(Len(stages) - 1)
               /\ crop_stage = stages[stage_index[1] + 1]
               /\ crop_stage \in Range(stages)
               /\ (crop \notin DOMAIN table \/ month \notin DOMAIN table[crop])
                      => stage_index[1] = Len(stages) \div 2

\* C13 witness: mustard has no month table in bihar_agmcp_server.py, so in
\* December the middle stage of its nine, index 4, is returned
WitC13_MustardWithoutMonthTable ==
    /\ pc = "agmcp_stage_out"
    /\ crop = "mustard"
    /\ month = 12
    /\ stage_index = <<4>>
    /\ crop_stage = "Flowering"

MonthEstimateOfUnknownCrop ==
    (pc \in {"stage_out", "agmcp_stage_out"}
        /\ crop \notin DOMAIN CROP_CALENDAR)
        => crop_stage = "Growing"

PlantedUnknownCrop ==
    pc = "planted_out" /\ lower(est_in.crop) \notin DOMAIN tools_CROP_CALENDAR

\* C14 as stated: both stage estimators, the month-based one and the
\* planting-date one, return the stage "Growing" for a crop that is not in
\* the calendar table.  The planting-date estimator returns no stage for
\* such a crop but the error "Crop not found"
CexC14_BothEstimatorsReturnGrowing ==
    /\ MonthEstimateOfUnknownCrop
    /\ PlantedUnknownCrop => Get(est_out, "stage", "") = "Growing"

PlantedKnownCrop ==
    pc = "planted_out" /\ lower(est_in.crop) \in DOMAIN tools_CROP_CALENDAR

\* current_date - plant_date in days, of the estimate that was asked for
DaysSincePlanting ==
    days_since_planting_of(est_in.plant_date, est_in.current_date)

\* C15 as claimed: for every crop of the table and every pair of dates,
\* a current date before the planting date included, the planting-date
\* estimator indexes the stages with an index in [0, len(stages)-1]; it
\* neither raises nor wraps around to a later stage
CexC15_PlantedIndexWithinStages ==
    PlantedKnownCrop =>
        /\ stage_index[1] \in
               0..(Len(tools_CROP_CALENDAR[lower(est_in.crop)].stages) - 1)
        /\ "raised" \notin DOMAIN est_out

\* C16: for every crop of the table and every daysSincePlanting >= 0 the
\* planting-date estimator returns stages[min(days // stageLength,
\* numStages - 1)] with stageLength = duration // numStages, and the
\* stage length of every crop of the table is at least 1
ThmC16_PlantedStageByStageLength ==
    (PlantedKnownCrop /\ DaysSincePlanting >= 0)
        => LET c == lower(est_in.crop)
               stages == tools_CROP_CALENDAR[c].stages
               duration == crop_durations[c]
               stageLength == duration \div Len(stages)
               index == IF DaysSincePlanting \div stageLength
                              < Len(stages) - 1
                        THEN DaysSincePlanting \div stageLength
                        ELSE Len(stages) - 1
           IN  /\ \A k \in DOMAIN tools_CROP_CALENDAR :
                      /\ k \in DOMAIN crop_durations
                      /\ crop_durations[k]
                             \div Len(tools_CROP_CALENDAR[k].stages) >= 1
               /\ stage_index = <<index>>
               /\ est_out = [stage |-> stages[index + 1]]

\* C16 witness: moong, whose stages are 8 days long, 13 days after
\* planting is at its second stage
WitC16_MoongSecondStage ==
    /\ pc = "planted_out"
    /\ est_in = [crop |-> "moong", plant_date |-> <<2025, 6, 15>>,
                 current_date |-> <<2025, 6, 28>>]
    /\ stage_index = <<1>>
    /\ est_out = [stage |-> "Germination"]

\* the first three characters of each name of the requests, in upper case
UpperThree(name) ==
    CASE name \in {"bihar", "Bihar"} -> <<"B", "I", "H">>
      [] name = "punjab" -> <<"P", "U", "N">>
      [] name = "Patna" -> <<"P", "A", "T">>
      [] name = "gaya" -> <<"G", "A", "Y">>
      [] name = "nalanda" -> <<"N", "A", "L">>
      [] name = "Kumhrar" -> <<"K", "U", "M">>
      [] name = "Danapur" -> <<"D", "A", "N">>
      [] name = "Phulwari" -> <<"P", "H", "U">>
      [] name = "Bihta" -> <<"B", "I", "H">>

IsDigit(ch) == ch \in {"0", "1", "2", "3", "4", "5", "6", "7", "8", "9"}

\* YYYYMMDD_HHMMSS
IsStamp(cs) ==
    /\ Len(cs) = 15
    /\ cs[9] = "_"
    /\ \A i \in (1..15) \ {9} : IsDigit(cs[i])

\* prefix_DISTRICT_VILLAGE_YYYYMMDD_HHMMSS for the given state prefix
AlertIdHasForm(prefix) ==
    LET id == result[1].alert_id
        n == Len(prefix)
    IN  /\ Len(id) = n + 24
        /\ SubSeq(id, 1, n) = prefix
        /\ id[n + 1] = "_"
        /\ SubSeq(id, n + 2, n + 4) = UpperThree(req.district)
        /\ id[n + 5] = "_"
        /\ SubSeq(id, n + 6, n + 8) = UpperThree(selected_village)
        /\ id[n + 9] = "_"
        /\ IsStamp(SubSeq(id, n + 10, n + 24))

\* C17 as claimed: the alert_id of every record is
\* STATE_DISTRICT_VILLAGE_YYYYMMDD_HHMMSS, each of the three prefixes being
\* the upper-cased name cut to 3 characters
CexC17_AlertIdThreeCharPrefixes ==
    result # NoneVal => AlertIdHasForm(UpperThree(req.state))

\* C17 as amended: the same form, the district and village prefixes being
\* the upper-cased names cut to 3 characters and the state prefix the
\* upper-cased state cut to 2 characters
ThmC17_AlertIdTwoCharStatePrefix ==
    result # NoneVal => AlertIdHasForm(SubSeq(UpperThree(req.state), 1, 2))

\* C17 witness: a record for Kumhrar in Patna, Bihar, assembled on
\* 2025-07-01 at 00:00:07, has the identifier BI_PAT_KUM_20250701_000007
WitC17_PatnaKumhrarId ==
    /\ result # NoneVal
    /\ result[1].alert_id =
           <<"B", "I", "_", "P", "A", "T", "_", "K", "U", "M", "_",
             "2", "0", "2", "5", "0", "7", "0", "1", "_",
             "0", "0", "0", "0", "0", "7">>

\* the 3-day precipitation of the forecast the record was built from, in
\* quarters of a millimetre: days 0..2 of the list, 0 without a list
Precip3Day ==
    LET p == Get(Get(fc, "daily", EmptyDict), "precipitation_sum",
                 <<0, 0, 0>>)
    IN  Sum(SubSeq(p, 1, Min(3, Len(p))))

Clamp(lo, hi, x) == IF x < lo THEN lo ELSE IF x > hi THEN hi ELSE x

\* round(x * 10) of a value given in quarters, a tie going to the even
\* neighbour as round() does
RoundTimesTen(x) ==
    LET q == (x * 10) \div 4
        r == (x * 10) % 4
    IN  IF r > 2 \/ (r = 2 /\ q % 2 = 1) THEN q + 1 ELSE q

\* C18 as claimed: rain_probability is clamp(10, 90, round(precip3day * 10))
\* when precip3day > 0 and 10 otherwise; it lies in [10, 90]
CexC18_RainProbabilityRounded ==
    result # NoneVal =>
        LET rp == result[1].weather.rain_probability
        IN  /\ rp \in 10..90
            /\ Precip3Day <= 0 => rp = 10
            /\ Precip3Day > 0 =>
                   rp = Clamp(10, 90, RoundTimesTen(Precip3Day))

\* C18 as amended: rain_probability is clamp(10, 90, int(precip3day * 10)),
\* the product being truncated and not rounded, when precip3day > 0 and 10
\* otherwise; it lies in [10, 90]
ThmC18_RainProbabilityTruncated ==
    result # NoneVal =>
        LET rp == result[1].weather.rain_probability
        IN  /\ rp \in 10..90
            /\ Precip3Day <= 0 => rp = 10
            /\ Precip3Day > 0 =>
                   rp = Clamp(10, 90, (Precip3Day * 10) \div 4)

\* C18 witness: 2.0 + 0.75 + 0 mm of rain give the probability 27, where
\* rounding 27.5 would give 28
WitC18_TwentySeven ==
    /\ result # NoneVal
    /\ Precip3Day = 11
    /\ result[1].weather.rain_probability = 27

\* which fields the weather data handed to the classifier carries
HasTemperature ==
    "current_weather" \in DOMAIN cw
        /\ "temperature" \in DOMAIN cw["current_weather"]

HasWindspeed ==
    "current_weather" \in DOMAIN cw
        /\ "windspeed" \in DOMAIN cw["current_weather"]

HasPrecipitation ==
    "daily" \in DOMAIN fc /\ "precipitation_sum" \in DOMAIN fc["daily"]

\* precipitation of forecast days 0..2, whatever the length of the list
FirstThreeDays ==
    IF ~HasPrecipitation THEN 0
    ELSE LET p == fc["daily"]["precipitation_sum"]
         IN  (IF Len(p) >= 1 THEN p[1] ELSE 0)
                 + (IF Len(p) >= 2 THEN p[2] ELSE 0)
                 + (IF Len(p) >= 3 THEN p[3] ELSE 0)

\* C19: a missing temperature is taken as 25, a missing wind speed as 10
\* and a missing or empty precipitation list as 0, only days 0..2 of the
\* list being summed; weather data with no usable field is classified as
\* weather_update with urgency low
ThmC19_MissingFieldsDefault ==
    pc = "alert_out" =>
        /\ (~HasTemperature /\ ~HasWindspeed /\ FirstThreeDays = 0
                /\ (HasPrecipitation =>
                        fc["daily"]["precipitation_sum"] = <<>>))
               => /\ cls.type = "weather_update"
                  /\ cls.urgency = "low"
                  /\ cls.message.nums = <<100, 0>>
        /\ ~HasTemperature =>
               /\ cls.type \notin {"cold_warning", "heat_drought_warning"}
               /\ cls.type = "weather_update" => cls.message.nums[1] = 100
        /\ ~HasWindspeed => cls.type # "high_wind_warning"
        /\ cls.type \in {"heavy_rain_warning", "moderate_rain_warning"}
               => cls.message.nums = <<FirstThreeDays>>
        /\ cls.type = "weather_update"
               => cls.message.nums[2] = FirstThreeDays
        /\ FirstThreeDays > 100 => cls.type = "heavy_rain_warning"
        /\ FirstThreeDays <= 40 =>
               cls.type \notin {"heavy_rain_warning",
                                "moderate_rain_warning"}

\* C19 witness: no current weather and an empty precipitation list give
\* the update for 25.0 degrees and 0.0 mm
WitC19_NothingUsable ==
    /\ pc = "alert_out"
    /\ cw = EmptyDict
    /\ fc = DailyOf(<<>>)
    /\ cls.type = "weather_update"
    /\ cls.urgency = "low"
    /\ cls.message.nums = <<100, 0>>

\* C20: whatever requests have been served and however the steps of the
\* requests in flight interleave, CROP_CALENDAR and DISTRICT_CROPS, the
\* primary, secondary and specialty lists of every district included, have
\* their load-time contents: crop selection and stage estimation hold the
\* tables' own lists but write only to lists of their own
ThmC20_TablesKeepLoadTimeContents ==
    /\ district_crops = DISTRICT_CROPS
    /\ crop_calendar = CROP_CALENDAR

\* C20 witness: two requests are in flight past step 4, one for Patna in
\* April, when no crop of the profile is in season and suitable_crops names
\* the primary list of the table itself, one for a district outside the
\* table; the primary list of Patna still reads rice, wheat, potato
WitC20_PrimaryListIntactAfterFallback ==
    /\ tasks[1].pc = "fetch_weather"
    /\ tasks[1].req = [state |-> "bihar", district |-> "Patna"]
    /\ tasks[1].month = 4
    /\ tasks[1].crop = "potato"
    /\ tasks[2].pc = "fetch_weather"
    /\ tasks[2].req = [state |-> "Bihar", district |-> "nalanda"]
    /\ tasks[2].month = 12
    /\ suitable_crops_ref("Patna", "zaid")
           = <<"DISTRICT_CROPS", "patna", "primary">>
    /\ district_crops["patna"].primary = <<"rice", "wheat", "potato">>

\* C21: whatever the lengths of the alert type, crop name, stage, urgency
\* and alert message of the record, the message create_sms_message returns
\* has at most 160 characters
ThmC21_SmsAtMost160 ==
    pc = "sms_out" => Len(call_ret) <= 160

\* C21 witness: a record whose labelled fields and message make more than
\* 160 characters gives an SMS of exactly 160
WitC21_LongMessageCut ==
    /\ pc = "sms_out"
    /\ Len(call_args.alert_json.alert.message) > 160
    /\ Len(call_ret) = 160

\* C22 as stated: whichever channel formatter the record is fed to, reading
\* its output back gives the record's crop.name unchanged, and the WhatsApp
\* payloads without their prefix give the record's alert_id
CexC22_RoundTripKeepsCropName ==
    LET a == call_args.alert_json
    IN  /\ pc = "whatsapp_out" =>
              /\ WhatsappPayloadsCarryId(call_ret, a.alert_id)
              /\ WhatsappCropName(call_ret) = a.crop.name
        /\ pc = "sms_out" => SmsCropName(call_ret) = a.crop.name
        /\ pc = "ussd_out" => UssdCropName(call_ret) = a.crop.name
        /\ pc = "ivr_out" => IvrCropName(call_ret) = a.crop.name

\* C22 amended: the WhatsApp payloads are 'ack_' and 'info_' followed by the
\* record's alert_id, so stripping the prefix yields the alert_id; the IVR
\* script carries crop.name unchanged, the WhatsApp text and the USSD menu
\* carry crop.name capitalised, and the SMS carries its to_hindi translation
ThmC22_RoundTripUpToFormatting ==
    LET a == call_args.alert_json
    IN  /\ pc = "whatsapp_out" =>
              /\ WhatsappPayloadsCarryId(call_ret, a.alert_id)
              /\ WhatsappCropName(call_ret) = capitalize(a.crop.name)
        /\ pc = "sms_out" => SmsCropName(call_ret) = to_hindi(a.crop.name)
        /\ pc = "ussd_out" => UssdCropName(call_ret) = capitalize(a.crop.name)
        /\ pc = "ivr_out" => IvrCropName(call_ret) = a.crop.name

\* C22 witness: a WhatsApp message for a record of crop "rice" whose
\* alert_id has the server's form: the payloads give the id back and the
\* text reads "Rice"
WitC22_WhatsappRice ==
    /\ pc = "whatsapp_out"
    /\ call_args.alert_json.crop.name = chars("rice")
    /\ call_args.alert_json.alert_id
           = alert_id_of("bihar", "Patna", "Kumhrar", <<2025, 7, 1, 0, 0, 7>>)
    /\ strip_prefix(call_ret.buttons[2].payload, chars("info_"))
           = call_args.alert_json.alert_id
    /\ WhatsappCropName(call_ret) = <<"R", "i", "c", "e">>

\* C23: within one request the external steps happen in the order village
\* lookup, village geocoding, district geocoding (only after the village
\* geocoding failed), current weather, forecast, rule classification, the
\* AI calls, record assembly, the channel formatters; the AI generator is
\* called only after both weather fetches succeeded, and the formatters run
\* only on a fully assembled record
ThmC23_StepsInFixedOrder ==
    /\ CallsInOrder
    /\ Made("reverse_geocode_village") => Succeeded("list_villages")
    /\ Made("reverse_geocode_district") =>
          Made("reverse_geocode_village")
              /\ ~Succeeded("reverse_geocode_village")
    /\ Made("get_current_weather") => Made("reverse_geocode_village")
    /\ Made("get_weather_forecast") => Succeeded("get_current_weather")
    /\ cls # NoClassification => Succeeded("get_weather_forecast")
    /\ AiCalled =>
          /\ Succeeded("get_current_weather")
          /\ Succeeded("get_weather_forecast")
          /\ cls # NoClassification
    /\ result # NoneVal =>
          /\ cls # NoClassification
          /\ openai_key => AiCalled
    /\ FormatterCalled => result # NoneVal /\ RecordComplete(result[1])

\* C23 witness: a request answered after the district geocoding, both
\* weather fetches, the language model and the five formatters
WitC23_FullPipeline ==
    /\ pc = "responded"
    /\ Made("reverse_geocode_district")
    /\ Succeeded("openai_chat_completion")
    /\ Made("create_telegram_message")
    /\ Len(calls) = 14

\* C24 as stated: any two alert records produced by distinct requests have
\* distinct alert_id values, also when the requests are for the same state,
\* district and village and are served within the same second
CexC24_AlertIdsDistinct ==
    \A i, j \in DOMAIN issued_ids :
        i # j => issued_ids[i] # issued_ids[j]

\* C25: when generate_dynamic_alert returns, the record of a request that
\* obtained an AI narrative differs from
\* the one it would have returned without it only in alert.message,
\* alert.ai_generated, data_source and the ai_analysis block; type, urgency
\* and action_items are the rule classifier's; and ai_generated is true
\* exactly when data_source is 'open_meteo_api_with_ai_enhancement',
\* exactly when the ai_analysis key is present
ThmC25_AiChangesOnlyNarrative ==
    pc = "returned" =>
        LET r == result[1]
        IN  /\ SameButAiFields(r, RecordWithoutAi)
            /\ r.alert.type = cls.type
            /\ r.alert.urgency = cls.urgency
            /\ r.alert.action_items = cls.action_items
            /\ r.alert.ai_generated
                  <=> r.data_source = "open_meteo_api_with_ai_enhancement"
            /\ r.alert.ai_generated <=> "ai_analysis" \in DOMAIN r
            /\ r.data_source
                  \in {"open_meteo_api", "open_meteo_api_with_ai_enhancement"}

\* C25 witness: a record with an AI narrative whose message is not the
\* rule classifier's while its type is
WitC25_AiNarrativeRecord ==
    /\ pc = "returned"
    /\ ai # NoneVal
    /\ result[1].alert.ai_generated
    /\ "ai_analysis" \in DOMAIN result[1]
    /\ result[1].alert.message # cls.message
    /\ result[1].alert.type = cls.type
    /\ cls.type # "weather_update"

\* C26: in run_workflow and run_workflow_clean a formatter that raises does
\* not stop the others: agent_responses has exactly one entry for each of
\* the five channels, in the order WhatsApp, SMS, USSD, IVR, Telegram, each
\* the formatter's output or a string starting with 'Error:', and the
\* status is 'success' with the record returned
ThmC26_EveryAgentAnswered ==
    pc \in {"workflow_out", "workflow_clean_out"} =>
        LET a == call_args.sample_alert
            r == call_ret
            ar == r.raw_data.agent_responses
        IN  /\ r.status = "success"
            /\ r.raw_data.alert_data = a
            /\ Len(ar) = 5
            /\ \A i \in 1..5 : ar[i][1] = agents[i][1]
            /\ EntryIsOutputOrError(ar[1][2], a, whatsapp_reads,
                                    create_whatsapp_message(a))
            /\ EntryIsOutputOrError(ar[2][2], a, sms_reads,
                                    create_sms_message(a))
            /\ EntryIsOutputOrError(ar[3][2], a, ussd_reads,
                                    create_ussd_menu(a))
            /\ EntryIsOutputOrError(ar[4][2], a, ivr_reads,
                                    create_ivr_script(a))
            /\ \/ ar[5][2] = <<"telegram_message">>
               \/ starts_with(ar[5][2], chars("Error:"))

\* C26 witness: run_workflow on a record without alert_id: the WhatsApp
\* entry is the error string, the SMS, USSD and IVR entries are the
\* formatters' outputs, the Telegram formatter raised too, and the status
\* is 'success'
WitC26_WhatsappFailsOthersAnswer ==
    /\ pc = "workflow_out"
    /\ "alert_id" \notin DOMAIN call_args.sample_alert
    /\ "message" \in DOMAIN call_args.sample_alert.alert
    /\ call_ret.status = "success"
    /\ call_ret.raw_data.agent_responses[1][2]
           = chars("Error: ") \o chars("'") \o chars("alert_id") \o chars("'")
    /\ call_ret.raw_data.agent_responses[2][2]
           = create_sms_message(call_args.sample_alert)
    /\ call_ret.raw_data.agent_responses[3][2]
           = create_ussd_menu(call_args.sample_alert)
    /\ starts_with(call_ret.raw_data.agent_responses[5][2], chars("Error:"))

\* C27 as stated: mcp_rpc_handler never raises, and every response carries
\* jsonrpc '2.0', the id of the request and exactly one of 'result' and
\* 'error': -32601 for a method other than call_tool, a result for
\* call_tool with run_workflow, and a result or -32000 for call_tool with
\* any other tool
CexC27_RpcAlwaysAnswers ==
    pc = "rpc_out" =>
        LET request == call_args.request
            method == json_get(request, "method")
        IN  /\ ~call_ret.raised
            /\ call_ret.value.jsonrpc = "2.0"
            /\ call_ret.value.id = json_get(request, "id")
            /\ OneOfResultAndError(call_ret.value)
            /\ method # Str("call_tool") => IsRpcError(call_ret.value, -32601)
            /\ method = Str("call_tool") =>
                  \/ "result" \in DOMAIN call_ret.value
                  \/ IsRpcError(call_ret.value, -32000)

\* C28 as stated: for every tool of TOOL_CONFIG the module is in the module
\* map and the call of the tool never fails on the api_key argument that
\* mcp_endpoint adds
CexC28_InjectedKeyAccepted ==
    (pc = "mcp_out" /\ call_args.tool \in DOMAIN TOOL_CONFIG) =>
        /\ TOOL_CONFIG[call_args.tool].module \in module_map
        /\ ~FailsOnInjectedKey(call_ret)

\* C29: a call of prioritize_alerts returns the alerts it was handed, none
\* dropped and none duplicated, in the order of non-increasing urgency, the
\* urgency of an alert being urgency_factors[alert.crop], or 0 when the
\* crop has no factor, whatever urgency the alert came with; alerts of
\* equal urgency keep their input order
ThmC29_StablePermutationByUrgency ==
    [][(pc = "prioritize_in" /\ pc' = "prioritize_out") =>
          /\ Len(call_ret') = Len(call_args.alerts_list)
          /\ \E p \in OneToOneMaps(Len(call_ret')) :
                IsStablePrioritization(call_ret', call_args.alerts_list,
                                       call_args.urgency_factors, p)]_vars

\* C29 witness: three alerts were handed in, the first of a crop without a
\* factor, the other two of equal urgency: the two come first in their
\* input order and the first alert comes last with the default urgency 0;
\* the caller's list is in its old order and shows the urgencies too
WitC29_TiesKeepOrderDefaultLast ==
    /\ pc = "prioritize_out"
    /\ call_args.urgency_factors = ("rice" :> 2) @@ ("wheat" :> 2)
    /\ call_args.alerts_list
          = <<[crop |-> "maize", note |-> "first", urgency |-> 0],
              [crop |-> "wheat", note |-> "second", urgency |-> 2],
              [crop |-> "rice", note |-> "first", urgency |-> 2]>>
    /\ call_ret
          = <<[crop |-> "wheat", note |-> "second", urgency |-> 2],
              [crop |-> "rice", note |-> "first", urgency |-> 2],
              [crop |-> "maize", note |-> "first", urgency |-> 0]>>

\* C30 as stated: get_ussd_submenu handles every option the USSD menus
\* offer: choice 1 gives the alert message, choice 2 the action list, and
\* the offered choices 3 (Exit) and 0 (Back) give something other than the
\* 'Invalid choice' reply; a choice that is not offered gives 'Invalid
\* choice'
CexC30_OfferedChoicesHandled ==
    pc = "ussd_submenu_out" =>
        LET a == call_args.alert_json
            choice == call_args.choice
        IN  /\ choice = 1 =>
                  call_ret = chars("Chetavani: ") \o a.alert.message
                                 \o ussd_back
            /\ choice = 2 =>
                  call_ret = ussd_advice_head
                                 \o ussd_action_lines(a.alert.action_items)
                                 \o ussd_back
            /\ choice \in UssdOffered(a) => call_ret # ussd_invalid_choice
            /\ choice \notin UssdOffered(a) => call_ret = ussd_invalid_choice

============================================================================
